---- MODULE Spec2Model ----
(***************************************************************************)
(* Verification model of CeriosTesting/openapi-codegen.                    *)
(*                                                                         *)
(* The components are modelled each with its own specification:            *)
(*   SpecRef    resolveRef                  (openapi-core ref-resolver.ts) *)
(*   SpecDep    validateDependencyGraph     (conditional-validator.ts)     *)
(*   SpecBatch  executeBatch                (core batch executor)          *)
(*   SpecLru    LRUCache                    (playwright-generator.ts)      *)
(*   SpecLoad   cached spec loading         (spec-parser.ts and the        *)
(*              generators' parseSpec)                                     *)
(*   SpecEnum   enum member naming          (enum-utils.ts,                *)
(*              enum-generator.ts)                                         *)
(*   SpecEndpoints  extractEndpoints        (endpoint extraction utilities *)
(*              of the core, client generator of the playwright package)  *)
(*   SpecMerge  mergeParameters             (openapi-core ref-resolver.ts) *)
(*   SpecContentType  selectContentType     (content-type-utils.ts)        *)
(*   SpecSuccess  the success response loop of extractEndpoints            *)
(*   SpecStrip  stripPrefix                 (enum-utils.ts)                *)
(*   SpecNullable  isNullable               (string-utils.ts)              *)
(*   SpecWarnings  the utilities that warn  (enum-utils.ts,                *)
(*              header-filters.ts, the client generators)                  *)
(*   SpecBasePath  normalizeBasePath        (path-utils.ts)                *)
(* A specification leaves the variables of the other components at their   *)
(* idle values.                                                            *)
(***************************************************************************)
EXTENDS Integers, Sequences, FiniteSets, TLC

VARIABLES
    \* ---- resolveRef ----
    refSchemas,   \* spec.components.schemas: name -> entry
    refStart,     \* the node the outermost call was given
    refDepth0,    \* the maxDepth the outermost call was given
    refObj,       \* obj of the current invocation
    refDepth,     \* maxDepth of the current invocation
    refLookups,   \* number of component lookups made so far
    refPc,        \* "call" while an invocation is pending, "done" after return
    refResult,    \* the returned value (NoValue until the call returns)
    \* ---- validateDependencyGraph ----
    depRequired,      \* schema.dependentRequired: property -> declared entry
    depDependencies,  \* schema.dependencies: property -> declared entry
    depRoots,         \* keys of graph the root loop has not reached yet
    depVisited,       \* visited
    depRecStack,      \* recStack
    depPath,          \* path
    depFrames,        \* pending detectCycle invocations, innermost last
    depErrors,        \* errors: the cycle of each message, in order
    depSteps,         \* number of steps the call has taken
    depPc,            \* "declare", "roots", "done"
    depValid,         \* the returned valid flag
    \* ---- executeBatch ----
    batSpecs,     \* specs: the input list
    batOutcome,   \* what createGenerator(spec).generate() does for each spec
    batMode,      \* executionMode
    batSize,      \* batchSize
    batI,         \* the loop index i
    batPending,   \* the settled results of the group being awaited
    batResults,   \* results (the array summary.results refers to)
    batCalls,     \* how often createGenerator was called with each spec
    batSummary,   \* total / successful / failed of the summary
    batThrown,    \* the error executeBatch rejected with
    batPc,        \* where the call is
    \* ---- LRUCache and cached spec loading ----
    cacheMap,     \* LRUCache.cache: the entries of the Map, oldest first
    cacheMax,     \* LRUCache.maxSize
    cacheOp,      \* the last get / set call and what it returned
    cacheUse,     \* history: the keys in the order of their last use
    ldOwner,      \* whose cache cacheMap is: "playwright", "k6" or "api"
    ldFiles,      \* the kind of document each input path holds
    ldNextObj,    \* the identity the next parsed document gets
    ldInput,      \* options.input of each OpenApiK6Generator
    ldMemo,       \* this.spec of each OpenApiK6Generator
    ldLast,       \* the last load call and its outcome
    \* ---- enum member naming ----
    enumFormat,   \* options.format of the generateEnum call
    enumTypes,    \* typeof of each element of values
    enumValues,   \* the elements of values that values.map has reached
    enumMembers,  \* the member identifier produced for each of them
    usedKeys,     \* usedKeys
    enumPc,       \* "call", "members", "done"
    \* ---- extractEndpoints ----
    epVariant,    \* "core" (endpoint extraction utilities) or "playwright" (client generator)
    epPaths,      \* the keys of spec.paths in Object.entries order
    epOptions,    \* the options of the call
    epPos,        \* <<path index, method index>> of the operation reached last
    epOps,        \* the operations found so far, with their position
    epEndpoints,  \* endpoints
    epWarnings,   \* the warnings reported so far
    epPc,         \* "loop", "done"
    \* ---- mergeParameters ----
    mgPath,       \* pathParams
    mgOp,         \* operationParams
    mgMerged,     \* merged
    mgPos,        \* the number of resolvedOperationParams the loop has taken
    mgPc,         \* "call", "loop", "done"
    \* ---- selectContentType ----
    ctAvailable,  \* availableContentTypes
    ctPreferred,  \* preferredContentTypes
    ctResult,     \* the returned value
    ctPc,         \* "call", "done"
    \* ---- the success response of one operation ----
    srResponses,  \* Object.entries(operation.responses)
    srOptions,    \* preferredContentTypes and trackStatusCode
    srResult,     \* successResponseType and successStatusCode
    srPc,         \* "call", "done"
    \* ---- stripPrefix ----
    spInput,      \* input
    spPattern,    \* pattern
    spLead,       \* ensureLeadingChar
    spResult,     \* the returned value
    spPc,         \* "call", "done"
    \* ---- isNullable ----
    nlSchema,     \* schema
    nlDefault,    \* defaultNullable
    nlResult,     \* the returned value
    nlPc,         \* "call", "done"
    \* ---- warnings ----
    wnCalls,      \* the number of calls made
    wnConsole,    \* what console.warn has been given, in order
    wnCallback,   \* what the injected warn callback has been given, in order
    wnLast,       \* the function called last
    \* ---- normalizeBasePath ----
    nbInput,      \* basePath
    nbOnce,       \* normalizeBasePath(basePath)
    nbTwice,      \* normalizeBasePath of that result
    nbPc          \* "call", "once", "twice"

refVars == <<refSchemas, refStart, refDepth0, refObj, refDepth, refLookups, refPc, refResult>>

depVars == <<depRequired, depDependencies, depRoots, depVisited, depRecStack, depPath,
             depFrames, depErrors, depSteps, depPc, depValid>>

batVars == <<batSpecs, batOutcome, batMode, batSize, batI, batPending, batResults,
             batCalls, batSummary, batThrown, batPc>>

cacheVars == <<cacheMap, cacheMax, cacheOp, cacheUse>>

ldVars == <<ldOwner, ldFiles, ldNextObj, ldInput, ldMemo, ldLast>>

enumVars == <<enumFormat, enumTypes, enumValues, enumMembers, usedKeys, enumPc>>

\* The components of the first and of the second part of the model.
part1Vars == <<refVars, depVars, batVars, cacheVars, ldVars>>
epVars == <<epVariant, epPaths, epOptions, epPos, epOps, epEndpoints, epWarnings, epPc>>

mgVars == <<mgPath, mgOp, mgMerged, mgPos, mgPc>>

ctVars == <<ctAvailable, ctPreferred, ctResult, ctPc>>

srVars == <<srResponses, srOptions, srResult, srPc>>

spVars == <<spInput, spPattern, spLead, spResult, spPc>>

nlVars == <<nlSchema, nlDefault, nlResult, nlPc>>

part3Vars == <<mgVars, ctVars, srVars, spVars, nlVars>>

wnVars == <<wnCalls, wnConsole, wnCallback, wnLast>>

nbVars == <<nbInput, nbOnce, nbTwice, nbPc>>

part4Vars == <<wnVars, nbVars>>

part2Vars == <<enumVars, epVars, part3Vars, part4Vars>>

vars == <<part1Vars, part2Vars>>

\* The variables of a component that is not running.
RefIdle ==
    /\ refSchemas = <<>> /\ refStart = <<>> /\ refDepth0 = 0 /\ refObj = <<>>
    /\ refDepth = 0 /\ refLookups = 0 /\ refPc = "idle" /\ refResult = <<>>

DepIdle ==
    /\ depRequired = <<>> /\ depDependencies = <<>> /\ depRoots = <<>>
    /\ depVisited = {} /\ depRecStack = {} /\ depPath = <<>> /\ depFrames = <<>>
    /\ depErrors = <<>> /\ depSteps = 0 /\ depPc = "idle" /\ depValid = TRUE

BatIdle ==
    /\ batSpecs = <<>> /\ batOutcome = <<>> /\ batMode = "idle" /\ batSize = 0
    /\ batI = 0 /\ batPending = <<>> /\ batResults = <<>> /\ batCalls = <<>>
    /\ batSummary = <<>> /\ batThrown = "none" /\ batPc = "idle"

CacheIdle ==
    /\ cacheMap = <<>> /\ cacheMax = 0 /\ cacheOp = <<>> /\ cacheUse = <<>>

LdIdle ==
    /\ ldOwner = "idle" /\ ldFiles = <<>> /\ ldNextObj = 0 /\ ldInput = <<>>
    /\ ldMemo = <<>> /\ ldLast = <<>>

EnumIdle ==
    /\ enumFormat = "idle" /\ enumTypes = <<>> /\ enumValues = <<>>
    /\ enumMembers = <<>> /\ usedKeys = {} /\ enumPc = "idle"

Part1Idle == RefIdle /\ DepIdle /\ BatIdle /\ CacheIdle /\ LdIdle
EpIdle ==
    /\ epVariant = "idle" /\ epPaths = <<>> /\ epOptions = <<>> /\ epPos = <<0, 0>>
    /\ epOps = <<>> /\ epEndpoints = <<>> /\ epWarnings = <<>> /\ epPc = "idle"

MgIdle ==
    /\ mgPath = <<>> /\ mgOp = <<>> /\ mgMerged = <<>> /\ mgPos = 0 /\ mgPc = "idle"

CtIdle ==
    /\ ctAvailable = <<>> /\ ctPreferred = <<>> /\ ctResult = <<>> /\ ctPc = "idle"

SrIdle ==
    /\ srResponses = <<>> /\ srOptions = <<>> /\ srResult = <<>> /\ srPc = "idle"

SpIdle ==
    /\ spInput = <<>> /\ spPattern = <<>> /\ spLead = <<>> /\ spResult = <<>>
    /\ spPc = "idle"

NlIdle ==
    /\ nlSchema = <<>> /\ nlDefault = FALSE /\ nlResult = FALSE /\ nlPc = "idle"

Part3Idle == MgIdle /\ CtIdle /\ SrIdle /\ SpIdle /\ NlIdle

WnIdle ==
    /\ wnCalls = 0 /\ wnConsole = <<>> /\ wnCallback = <<>> /\ wnLast = "idle"

NbIdle ==
    /\ nbInput = <<>> /\ nbOnce = <<>> /\ nbTwice = <<>> /\ nbPc = "idle"

Part4Idle == WnIdle /\ NbIdle

Part2Idle == EnumIdle /\ EpIdle /\ Part3Idle /\ Part4Idle

\* What each component leaves alone.
refOthers == <<depVars, batVars, cacheVars, ldVars, part2Vars>>
depOthers == <<refVars, batVars, cacheVars, ldVars, part2Vars>>
batOthers == <<refVars, depVars, cacheVars, ldVars, part2Vars>>
lruOthers == <<refVars, depVars, batVars, ldVars, part2Vars>>
ldOthers == <<refVars, depVars, batVars, part2Vars>>
enumOthers == <<part1Vars, epVars, part3Vars, part4Vars>>
epOthers == <<part1Vars, enumVars, part3Vars, part4Vars>>
mgOthers == <<part1Vars, enumVars, epVars, ctVars, srVars, spVars, nlVars, part4Vars>>
ctOthers == <<part1Vars, enumVars, epVars, mgVars, srVars, spVars, nlVars, part4Vars>>
srOthers == <<part1Vars, enumVars, epVars, mgVars, ctVars, spVars, nlVars, part4Vars>>
spOthers == <<part1Vars, enumVars, epVars, mgVars, ctVars, srVars, nlVars, part4Vars>>
wnOthers == <<part1Vars, enumVars, epVars, part3Vars, nbVars>>
nbOthers == <<part1Vars, enumVars, epVars, part3Vars, wnVars>>
nlOthers == <<part1Vars, enumVars, epVars, mgVars, ctVars, srVars, spVars, part4Vars>>

RefOthersIdle == DepIdle /\ BatIdle /\ CacheIdle /\ LdIdle /\ Part2Idle
DepOthersIdle == RefIdle /\ BatIdle /\ CacheIdle /\ LdIdle /\ Part2Idle
BatOthersIdle == RefIdle /\ DepIdle /\ CacheIdle /\ LdIdle /\ Part2Idle
LruOthersIdle == RefIdle /\ DepIdle /\ BatIdle /\ LdIdle /\ Part2Idle
LdOthersIdle == RefIdle /\ DepIdle /\ BatIdle /\ Part2Idle
EnumOthersIdle == Part1Idle /\ EpIdle /\ Part3Idle /\ Part4Idle
EpOthersIdle == Part1Idle /\ EnumIdle /\ Part3Idle /\ Part4Idle
MgOthersIdle == Part1Idle /\ EnumIdle /\ EpIdle /\ CtIdle /\ SrIdle /\ SpIdle /\ NlIdle /\ Part4Idle
CtOthersIdle == Part1Idle /\ EnumIdle /\ EpIdle /\ MgIdle /\ SrIdle /\ SpIdle /\ NlIdle /\ Part4Idle
SrOthersIdle == Part1Idle /\ EnumIdle /\ EpIdle /\ MgIdle /\ CtIdle /\ SpIdle /\ NlIdle /\ Part4Idle
SpOthersIdle == Part1Idle /\ EnumIdle /\ EpIdle /\ MgIdle /\ CtIdle /\ SrIdle /\ NlIdle /\ Part4Idle
WnOthersIdle == Part1Idle /\ EnumIdle /\ EpIdle /\ Part3Idle /\ NbIdle
NbOthersIdle == Part1Idle /\ EnumIdle /\ EpIdle /\ Part3Idle /\ WnIdle
NlOthersIdle == Part1Idle /\ EnumIdle /\ EpIdle /\ MgIdle /\ CtIdle /\ SrIdle /\ SpIdle /\ Part4Idle

(***************************************************************************)
(* Values shared by the components.                                        *)
(***************************************************************************)
NoValue == [tag |-> "none"]

(***************************************************************************)
(*                              resolveRef                                 *)
(***************************************************************************)

\* Bounds of the resolveRef model.
MaxNames == 3
MaxDepthArg == 2

\* Default value of the maxDepth parameter.
DefaultMaxDepth == 10

Names == 1..MaxNames

\* The four component kinds resolveRef matches, in the order it tests them.
ComponentKinds == {"parameters", "requestBodies", "responses", "schemas"}

\* JavaScript values a node can be.
NullNode == [tag |-> "null"]
PrimNode == [tag |-> "prim"]
ObjNode(k, n) == [tag |-> "obj", kind |-> k, name |-> n]
RefNode(k, n) == [tag |-> "ref", kind |-> k, name |-> n]
Missing == [tag |-> "missing"]

\* References a document node can hold: to a schema by name, to the one
\* response of the document, to a request body (the document has no
\* requestBodies section), to an unknown parameter, or a pointer that matches
\* none of the four patterns ("external").
RefNodes ==
    {RefNode("schemas", n) : n \in Names}
        \cup {RefNode("responses", 1), RefNode("requestBodies", 1),
              RefNode("parameters", 1), RefNode("external", 1)}

\* What components.schemas[name] can be.
SchemaEntries == {Missing} \cup {ObjNode("schemas", n) : n \in Names} \cup RefNodes

\* Values resolveRef can be called with.
StartNodes == {NullNode, PrimNode, ObjNode("inline", 0)} \cup RefNodes

DepthArgs == (0..MaxDepthArg) \cup {DefaultMaxDepth}

\* typeof obj === "object" && obj !== null && "$ref" in obj && typeof $ref === "string"
hasRef(obj) == obj.tag = "ref"

\* !obj || typeof obj !== "object"
IsFalsyOrNonObject(obj) == obj.tag \in {"null", "prim", "missing"}

\* spec.components?.[kind] is present.  The documents of this model have a
\* parameters section (empty), a responses section (one concrete response)
\* and a schemas section; they have no requestBodies section.
SectionPresent(kind) == kind \in {"parameters", "responses", "schemas"}

\* spec.components[kind][name]
SectionEntry(schemas, kind, name) ==
    CASE kind = "schemas" -> IF name \in DOMAIN schemas THEN schemas[name] ELSE Missing
      [] kind = "responses" -> IF name = 1 THEN ObjNode("responses", 1) ELSE Missing
      [] OTHER -> Missing

\* The value of `resolved` after the four pattern tests: the component the
\* pointer names, or Missing (null / undefined) when the pointer matches no
\* pattern, the section is absent or the name is not in it.
Lookup(schemas, ref) ==
    IF ref.kind \in ComponentKinds /\ SectionPresent(ref.kind)
    THEN SectionEntry(schemas, ref.kind, ref.name)
    ELSE Missing

\* Mutant of NextDepth: the recursive call passes maxDepth on unchanged.
NextDepthSame(d) == d

\* The depth budget of the recursive call.
NextDepth(d) == d - 1

\* Mutant of NotFoundResult: the fall-through returns `resolved`.
NotFoundResultResolved(obj, resolved) == resolved

\* The fall-through return when nothing was resolved: `return obj`.
NotFoundResult(obj, resolved) == obj

\* Guard that keeps the lookup counter finite under a mutated NextDepth.
MaxLookups == 12

RefInit ==
    /\ RefOthersIdle
    /\ refSchemas \in [Names -> SchemaEntries]
    /\ refStart \in StartNodes
    /\ refDepth0 \in DepthArgs
    /\ refObj = refStart
    /\ refDepth = refDepth0
    /\ refLookups = 0
    /\ refPc = "call"
    /\ refResult = NoValue

\* Early return: obj is falsy or not an object, the budget is spent, or obj
\* has no $ref.
ResolveReturnObj ==
    /\ refPc = "call"
    /\ IsFalsyOrNonObject(refObj) \/ refDepth <= 0 \/ ~hasRef(refObj)
    /\ refPc' = "done"
    /\ refResult' = refObj
    /\ UNCHANGED <<refSchemas, refStart, refDepth0, refObj, refDepth, refLookups>>
    /\ UNCHANGED refOthers

\* The pointer is looked up and nothing (truthy) is found: return obj.
ResolveNotFound ==
    /\ refPc = "call"
    /\ ~IsFalsyOrNonObject(refObj) /\ refDepth > 0 /\ hasRef(refObj)
    /\ refLookups < MaxLookups
    /\ IsFalsyOrNonObject(Lookup(refSchemas, refObj))
    /\ refLookups' = refLookups + 1
    /\ refPc' = "done"
    /\ refResult' = NotFoundResult(refObj, Lookup(refSchemas, refObj))
    /\ UNCHANGED <<refSchemas, refStart, refDepth0, refObj, refDepth>>
    /\ UNCHANGED refOthers

\* The pointer is looked up and a concrete component is found: return it.
ResolveFound ==
    /\ refPc = "call"
    /\ ~IsFalsyOrNonObject(refObj) /\ refDepth > 0 /\ hasRef(refObj)
    /\ refLookups < MaxLookups
    /\ ~IsFalsyOrNonObject(Lookup(refSchemas, refObj))
    /\ ~hasRef(Lookup(refSchemas, refObj))
    /\ refLookups' = refLookups + 1
    /\ refPc' = "done"
    /\ refResult' = Lookup(refSchemas, refObj)
    /\ UNCHANGED <<refSchemas, refStart, refDepth0, refObj, refDepth>>
    /\ UNCHANGED refOthers

\* The pointer is looked up and the component is itself a reference:
\* resolveRef(resolved, spec, maxDepth - 1).
ResolveRecurse ==
    /\ refPc = "call"
    /\ ~IsFalsyOrNonObject(refObj) /\ refDepth > 0 /\ hasRef(refObj)
    /\ refLookups < MaxLookups
    /\ hasRef(Lookup(refSchemas, refObj))
    /\ refLookups' = refLookups + 1
    /\ refObj' = Lookup(refSchemas, refObj)
    /\ refDepth' = NextDepth(refDepth)
    /\ UNCHANGED <<refSchemas, refStart, refDepth0, refPc, refResult>>
    /\ UNCHANGED refOthers

RefNext == ResolveReturnObj \/ ResolveNotFound \/ ResolveFound \/ ResolveRecurse

SpecRef == RefInit /\ [][RefNext]_vars

\* The budget the outermost call starts with, as a number of lookups.
RefBudget == IF refDepth0 > 0 THEN refDepth0 ELSE 0

\* C1: resolveRef terminates after following at most maxDepth references
\* (every pending invocation can take a step, and the number of lookups never
\* exceeds the budget of the outermost call), also on cyclic chains and on
\* chains longer than the budget; when the budget is spent on a reference,
\* the call returns that reference node, the last one reached, unresolved.
C1_BoundedResolution ==
    /\ refLookups <= RefBudget
    /\ refPc = "call" => ENABLED RefNext
    /\ (refPc = "done" /\ refDepth <= 0 /\ hasRef(refObj)) =>
           /\ refResult = refObj
           /\ hasRef(refResult)
           /\ refLookups = RefBudget

\* C1 witness: a chain (here necessarily cyclic) that exhausts the default
\* budget of 10 and returns a reference.
C1_Witness ==
    /\ refPc = "done"
    /\ refDepth0 = DefaultMaxDepth
    /\ refDepth = 0
    /\ refLookups = DefaultMaxDepth
    /\ hasRef(refResult)

MaxProps == 3
MaxDecls == 3

Props == 1..MaxProps

\* One key of dependentRequired / dependencies: absent, an array of property
\* names (isArray), or, in dependencies only, a schema object.
NoEntry == [present |-> FALSE, isArray |-> FALSE, deps |-> {}]
ArrayEntry(deps) == [present |-> TRUE, isArray |-> TRUE, deps |-> deps]
SchemaEntry == [present |-> TRUE, isArray |-> FALSE, deps |-> {}]

\* Number of declarations made so far in the two objects.
DeclCount(required, dependencies) ==
    Cardinality({pq \in Props \X Props : pq[2] \in required[pq[1]].deps})
    + Cardinality({pq \in Props \X Props : pq[2] \in dependencies[pq[1]].deps})
    + Cardinality({p \in Props : required[p].present /\ required[p].deps = {}})
    + Cardinality({p \in Props : dependencies[p].present /\ dependencies[p].deps = {}})

\* !schema.dependencies && !schema.dependentRequired.  An object with no key
\* takes the long way to the same result { valid: true, errors: [] }.
NothingDeclared(required, dependencies) ==
    \A p \in Props : ~required[p].present /\ ~dependencies[p].present

\* The keys of graph in insertion order: those of dependentRequired first,
\* then the array-valued keys of dependencies that are new.
GraphKeysFirst(required) == {p \in Props : required[p].present}

GraphKeysSecond(required, dependencies) ==
    {p \in Props : dependencies[p].present /\ dependencies[p].isArray}
        \ GraphKeysFirst(required)

\* graph.get(prop) in insertion order: the names dependentRequired lists,
\* then the names the array form of dependencies adds.
GraphDepsFirst(required, prop) == required[prop].deps

GraphDepsSecond(required, dependencies, prop) ==
    (IF dependencies[prop].isArray THEN dependencies[prop].deps ELSE {})
        \ GraphDepsFirst(required, prop)

\* graph.get(prop) || new Set()
GraphDeps(required, dependencies, prop) ==
    GraphDepsFirst(required, prop) \cup GraphDepsSecond(required, dependencies, prop)

\* The elements an insertion-ordered iteration can yield next: any order of
\* the first group, then any order of the second.
NextOf(it) == IF it.first # {} THEN it.first ELSE it.second

Without(it, x) == [it EXCEPT !.first = @ \ {x}, !.second = @ \ {x}]

\* dep occurs in path
InPath(path, dep) == \E i \in 1..Len(path) : path[i] = dep

\* path.indexOf(dep), counted from 1, for a dep that occurs in path
IndexOf(path, dep) ==
    CHOOSE i \in 1..Len(path) : path[i] = dep /\ \A j \in 1..(i - 1) : path[j] # dep

\* [...path.slice(cycleStart), dep]; indexOf is -1 for a dep that is not in
\* path, and slice(-1) is the last element.
CyclePath(path, dep) ==
    IF InPath(path, dep)
    THEN Append(SubSeq(path, IndexOf(path, dep), Len(path)), dep)
    ELSE Append(SubSeq(path, Len(path), Len(path)), dep)

\* Mutant of StackAfterReturn: a finished property stays on the stack.
StackAfterReturnKept(recStack, prop) == recStack

\* recStack.delete(prop)
StackAfterReturn(recStack, prop) == recStack \ {prop}

DepInit ==
    /\ DepOthersIdle
    /\ depRequired = [p \in Props |-> NoEntry]
    /\ depDependencies = [p \in Props |-> NoEntry]
    /\ depRoots = [first |-> {}, second |-> {}]
    /\ depVisited = {}
    /\ depRecStack = {}
    /\ depPath = <<>>
    /\ depFrames = <<>>
    /\ depErrors = <<>>
    /\ depSteps = 0
    /\ depPc = "declare"
    /\ depValid = TRUE

depRun == <<depRoots, depVisited, depRecStack, depPath, depFrames, depErrors, depSteps,
            depPc, depValid>>

\* The schema lists dep under dependentRequired[prop].
DeclareRequired ==
    /\ depPc = "declare"
    /\ DeclCount(depRequired, depDependencies) < MaxDecls
    /\ \E prop \in Props, dep \in Props :
          /\ dep \notin depRequired[prop].deps
          /\ depRequired' =
                [depRequired EXCEPT ![prop] = ArrayEntry(@.deps \cup {dep})]
    /\ UNCHANGED <<depDependencies, depRun, depOthers>>

\* The schema has dependentRequired[prop] = [].
DeclareRequiredEmpty ==
    /\ depPc = "declare"
    /\ DeclCount(depRequired, depDependencies) < MaxDecls
    /\ \E prop \in Props :
          /\ ~depRequired[prop].present
          /\ depRequired' = [depRequired EXCEPT ![prop] = ArrayEntry({})]
    /\ UNCHANGED <<depDependencies, depRun, depOthers>>

\* The schema lists dep under the array dependencies[prop].
DeclareDependency ==
    /\ depPc = "declare"
    /\ DeclCount(depRequired, depDependencies) < MaxDecls
    /\ \E prop \in Props, dep \in Props :
          /\ depDependencies[prop].present => depDependencies[prop].isArray
          /\ dep \notin depDependencies[prop].deps
          /\ depDependencies' =
                [depDependencies EXCEPT ![prop] = ArrayEntry(@.deps \cup {dep})]
    /\ UNCHANGED <<depRequired, depRun, depOthers>>

\* The schema has a schema object under dependencies[prop].
DeclareSchemaDependency ==
    /\ depPc = "declare"
    /\ DeclCount(depRequired, depDependencies) < MaxDecls
    /\ \E prop \in Props :
          /\ ~depDependencies[prop].present
          /\ depDependencies' = [depDependencies EXCEPT ![prop] = SchemaEntry]
    /\ UNCHANGED <<depRequired, depRun, depOthers>>

\* validateDependencyGraph is called on a schema with neither object.
ValidateNothingDeclared ==
    /\ depPc = "declare"
    /\ NothingDeclared(depRequired, depDependencies)
    /\ depPc' = "done"
    /\ depValid' = TRUE
    /\ depSteps' = depSteps + 1
    /\ UNCHANGED <<depRequired, depDependencies, depRoots, depVisited, depRecStack,
                   depPath, depFrames, depErrors, depOthers>>

\* validateDependencyGraph is called and builds graph.
BuildGraph ==
    /\ depPc = "declare"
    /\ ~NothingDeclared(depRequired, depDependencies)
    /\ depPc' = "roots"
    /\ depRoots' = [first |-> GraphKeysFirst(depRequired),
                    second |-> GraphKeysSecond(depRequired, depDependencies)]
    /\ depSteps' = depSteps + 1
    /\ UNCHANGED <<depRequired, depDependencies, depVisited, depRecStack, depPath,
                   depFrames, depErrors, depValid, depOthers>>

\* The frame of a new detectCycle(prop) invocation.
Frame(prop) ==
    [prop |-> prop,
     first |-> GraphDepsFirst(depRequired, prop),
     second |-> GraphDepsSecond(depRequired, depDependencies, prop)]

\* The root loop reaches a key that is not visited: detectCycle(prop).
RootCall ==
    /\ depPc = "roots" /\ depFrames = <<>>
    /\ \E prop \in NextOf(depRoots) :
          /\ prop \notin depVisited
          /\ depRoots' = Without(depRoots, prop)
          /\ depVisited' = depVisited \cup {prop}
          /\ depRecStack' = depRecStack \cup {prop}
          /\ depPath' = Append(depPath, prop)
          /\ depFrames' = <<Frame(prop)>>
    /\ depSteps' = depSteps + 1
    /\ UNCHANGED <<depRequired, depDependencies, depErrors, depPc, depValid, depOthers>>

\* The root loop reaches a key that is visited already.
RootSkip ==
    /\ depPc = "roots" /\ depFrames = <<>>
    /\ \E prop \in NextOf(depRoots) :
          /\ prop \in depVisited
          /\ depRoots' = Without(depRoots, prop)
    /\ depSteps' = depSteps + 1
    /\ UNCHANGED <<depRequired, depDependencies, depVisited, depRecStack, depPath,
                   depFrames, depErrors, depPc, depValid, depOthers>>

\* The root loop is over: return { valid: errors.length === 0, errors }.
RootsDone ==
    /\ depPc = "roots" /\ depFrames = <<>>
    /\ NextOf(depRoots) = {}
    /\ depPc' = "done"
    /\ depValid' = (Len(depErrors) = 0)
    /\ depSteps' = depSteps + 1
    /\ UNCHANGED <<depRequired, depDependencies, depRoots, depVisited, depRecStack,
                   depPath, depFrames, depErrors, depOthers>>

\* detectCycle reaches a dependency that is not visited: detectCycle(dep).
DetectDescend ==
    /\ depPc = "roots" /\ depFrames # <<>>
    /\ \E dep \in NextOf(depFrames[Len(depFrames)]) :
          /\ dep \notin depVisited
          /\ depVisited' = depVisited \cup {dep}
          /\ depRecStack' = depRecStack \cup {dep}
          /\ depPath' = Append(depPath, dep)
          /\ depFrames' =
                Append([depFrames EXCEPT ![Len(depFrames)] = Without(@, dep)], Frame(dep))
    /\ depSteps' = depSteps + 1
    /\ UNCHANGED <<depRequired, depDependencies, depRoots, depErrors, depPc, depValid,
                   depOthers>>

\* detectCycle reaches a dependency that is on recStack: the cycle is pushed
\* to errors and true is returned through every pending invocation, which
\* leaves recStack and path as they are.
DetectCycleFound ==
    /\ depPc = "roots" /\ depFrames # <<>>
    /\ \E dep \in NextOf(depFrames[Len(depFrames)]) :
          /\ dep \in depVisited
          /\ dep \in depRecStack
          /\ depErrors' = Append(depErrors, CyclePath(depPath, dep))
    /\ depFrames' = <<>>
    /\ depSteps' = depSteps + 1
    /\ UNCHANGED <<depRequired, depDependencies, depRoots, depVisited, depRecStack,
                   depPath, depPc, depValid, depOthers>>

\* detectCycle reaches a dependency that is visited and off the stack.
DetectSkip ==
    /\ depPc = "roots" /\ depFrames # <<>>
    /\ \E dep \in NextOf(depFrames[Len(depFrames)]) :
          /\ dep \in depVisited
          /\ dep \notin depRecStack
          /\ depFrames' = [depFrames EXCEPT ![Len(depFrames)] = Without(@, dep)]
    /\ depSteps' = depSteps + 1
    /\ UNCHANGED <<depRequired, depDependencies, depRoots, depVisited, depRecStack,
                   depPath, depErrors, depPc, depValid, depOthers>>

\* detectCycle has gone through deps: recStack.delete(prop); path.pop();
\* return false.
DetectReturn ==
    /\ depPc = "roots" /\ depFrames # <<>>
    /\ NextOf(depFrames[Len(depFrames)]) = {}
    /\ depRecStack' = StackAfterReturn(depRecStack, depFrames[Len(depFrames)].prop)
    /\ depPath' = SubSeq(depPath, 1, Len(depPath) - 1)
    /\ depFrames' = SubSeq(depFrames, 1, Len(depFrames) - 1)
    /\ depSteps' = depSteps + 1
    /\ UNCHANGED <<depRequired, depDependencies, depRoots, depVisited, depErrors, depPc,
                   depValid, depOthers>>

DepNext ==
    \/ DeclareRequired \/ DeclareRequiredEmpty
    \/ DeclareDependency \/ DeclareSchemaDependency
    \/ ValidateNothingDeclared \/ BuildGraph
    \/ RootCall \/ RootSkip \/ RootsDone
    \/ DetectDescend \/ DetectCycleFound \/ DetectSkip \/ DetectReturn

SpecDep == DepInit /\ [][DepNext]_vars

\* The declared dependency edges: prop -> dep for every dep listed under prop
\* in dependentRequired or in the array form of dependencies.
DeclaredEdge(prop, dep) == dep \in GraphDeps(depRequired, depDependencies, prop)

\* Properties reachable from the set S in at most k further edges.
RECURSIVE ReachWithin(_, _)
ReachWithin(S, k) ==
    IF k = 0 THEN S
    ELSE S \cup ReachWithin(UNION {{d \in Props : DeclaredEdge(p, d)} : p \in S}, k - 1)

\* The declared graph contains a directed cycle (a self-dependency included).
HasDirectedCycle ==
    \E p \in Props : p \in ReachWithin({d \in Props : DeclaredEdge(p, d)}, MaxProps)

\* A reported path is a cycle of the declared graph: it returns to where it
\* starts and each consecutive pair is a declared edge.
IsDeclaredCycle(cycle) ==
    /\ Len(cycle) >= 2
    /\ cycle[1] = cycle[Len(cycle)]
    /\ \A i \in 1..(Len(cycle) - 1) : DeclaredEdge(cycle[i], cycle[i + 1])

\* Steps one call can take: building, one per key of the root loop, one per
\* declared edge, one entry and one return per property, and the return.
DepStepBound == 2 + MaxProps + MaxProps * MaxProps + 2 * MaxProps

\* C3: validateDependencyGraph terminates (a running call can always step
\* and takes a bounded number of steps), and it returns valid = false with
\* at least one error whose path is a cycle of the declared graph exactly
\* when the graph has a directed cycle; for an acyclic graph it returns
\* valid = true and no errors.
C3_CycleDetection ==
    /\ depSteps <= DepStepBound
    /\ depPc = "roots" => ENABLED DepNext
    /\ depPc = "done" =>
          /\ depValid = ~HasDirectedCycle
          /\ depValid = (depErrors = <<>>)
          /\ ~depValid => IsDeclaredCycle(depErrors[1])

\* C3 witness: dependentRequired = {1: [2], 2: [1]} is reported as the cycle
\* 1 -> 2 -> 1.
C3_Witness ==
    /\ depPc = "done"
    /\ depRequired[1].deps = {2} /\ depRequired[2].deps = {1}
    /\ ~depValid
    /\ depErrors = << <<1, 2, 1>> >>

\* C4 (as claimed): once a cycle has been recorded nothing more is traversed
\* and the call reports exactly one cycle error.
C4_StopsAtFirstCycle ==
    depErrors # <<>> => (depFrames = <<>> /\ Len(depErrors) = 1)

(***************************************************************************)
(*                              executeBatch                               *)
(***************************************************************************)

\* Bounds of the batch model: the length of specs, the largest batchSize,
\* and how far below 0 the loop index of a non-positive batchSize is
\* followed.
MaxSpecs == 3
MaxBatchSize == 3
MaxLoopBelow == 2

\* What createGenerator(spec).generate() can do: return, throw an Error, or
\* throw a value that is not an Error.
Outcomes == {"ok", "error", "value"}

BatchSizes == (-1)..MaxBatchSize

NoError == <<"undefined", 0>>

\* error.message of the Error thrown for spec, or String(error).
ErrorMessage(spec, outcome) ==
    IF outcome = "error" THEN <<"message", spec>> ELSE <<"String", spec>>

\* processSpec: the result of one spec; the try / catch turns whatever the
\* generator throws into a failed result.
ProcessSpec(spec, outcome) ==
    IF outcome = "ok"
    THEN [spec |-> spec, success |-> TRUE, error |-> NoError]
    ELSE [spec |-> spec, success |-> FALSE, error |-> ErrorMessage(spec, outcome)]

Min(a, b) == IF a < b THEN a ELSE b
Max(a, b) == IF a > b THEN a ELSE b

\* Array.prototype.slice(start, end): a negative index counts from the end.
SliceIndex(k, len) == IF k < 0 THEN Max(len + k, 0) ELSE Min(k, len)

JsSlice(seq, start, end) ==
    SubSeq(seq, SliceIndex(start, Len(seq)) + 1, SliceIndex(end, Len(seq)))

\* Mutant of SliceEnd: a group takes one spec too many.
SliceEndOverlap(i, batchSize, len) == Min(i + batchSize + 1, len)

\* Math.min(i + batchSize, specs.length)
SliceEnd(i, batchSize, len) == Min(i + batchSize, len)

\* Mutant of PushResult: the result is put in front.
PushResultFront(results, result) == <<result>> \o results

\* results.push(result)
PushResult(results, result) == Append(results, result)

\* The loop over batchResults, pushing each fulfilled value in order.
RECURSIVE PushAll(_, _)
PushAll(results, settled) ==
    IF settled = <<>> THEN results
    ELSE PushAll(PushResult(results, Head(settled)), Tail(settled))

\* Mutant of IsEmptyBatch: the check for an empty list is missing.
IsEmptyBatchNever(specs) == FALSE

\* specs.length === 0
IsEmptyBatch(specs) == Len(specs) = 0

\* results.filter(r => r.success).length
CountSuccess(results, flag) ==
    Cardinality({k \in 1..Len(results) : results[k].success = flag})

BatInit ==
    /\ BatOthersIdle
    /\ \E n \in 0..MaxSpecs :
          /\ batSpecs = [k \in 1..n |-> k]
          /\ batOutcome \in [1..n -> Outcomes]
          /\ batCalls = [k \in 1..n |-> 0]
    /\ batMode \in {"parallel", "sequential"}
    /\ batSize \in BatchSizes
    /\ batI = 0
    /\ batPending = <<>>
    /\ batResults = <<>>
    /\ batSummary = [total |-> 0, successful |-> 0, failed |-> 0]
    /\ batThrown = "none"
    /\ batPc = "start"

batInput == <<batSpecs, batOutcome, batMode, batSize>>

\* executeBatch with no specs: throw new ConfigurationError(...).
BatchThrowEmpty ==
    /\ batPc = "start"
    /\ IsEmptyBatch(batSpecs)
    /\ batPc' = "threw"
    /\ batThrown' = "ConfigurationError"
    /\ UNCHANGED <<batInput, batI, batPending, batResults, batCalls, batSummary, batOthers>>

\* executeBatch chooses executeParallel or executeSequential.
BatchBegin ==
    /\ batPc = "start"
    /\ ~IsEmptyBatch(batSpecs)
    /\ batPc' = IF batMode = "parallel" THEN "parallel" ELSE "sequential"
    /\ UNCHANGED <<batInput, batI, batPending, batResults, batCalls, batSummary,
                   batThrown, batOthers>>

\* executeParallel: one pass of the loop up to the await.  processSpec runs
\* synchronously for every spec of the group, in order; it catches whatever
\* the generator throws, so every promise of the group is fulfilled.
ParallelGroup ==
    /\ batPc = "parallel"
    /\ batI < Len(batSpecs)
    /\ batI > -MaxLoopBelow
    /\ LET batch == JsSlice(batSpecs, batI, SliceEnd(batI, batSize, Len(batSpecs)))
       IN  /\ batPending' = [k \in 1..Len(batch) |-> ProcessSpec(batch[k], batOutcome[batch[k]])]
           /\ batCalls' = [x \in DOMAIN batCalls |->
                             batCalls[x] + Cardinality({k \in 1..Len(batch) : batch[k] = x})]
    /\ batPc' = "await"
    /\ UNCHANGED <<batInput, batI, batResults, batSummary, batThrown, batOthers>>

\* executeParallel after the await: the settled results are pushed in the
\* order of the group, and i += batchSize.
ParallelSettle ==
    /\ batPc = "await"
    /\ batResults' = PushAll(batResults, batPending)
    /\ batPending' = <<>>
    /\ batI' = batI + batSize
    /\ batPc' = "parallel"
    /\ UNCHANGED <<batInput, batCalls, batSummary, batThrown, batOthers>>

\* executeParallel: the loop condition fails, return results.
ParallelDone ==
    /\ batPc = "parallel"
    /\ ~(batI < Len(batSpecs))
    /\ batPc' = "summary"
    /\ UNCHANGED <<batInput, batI, batPending, batResults, batCalls, batSummary,
                   batThrown, batOthers>>

\* executeSequential: one pass of the loop.
SequentialStep ==
    /\ batPc = "sequential"
    /\ batI < Len(batSpecs)
    /\ batResults' =
          PushResult(batResults, ProcessSpec(batSpecs[batI + 1], batOutcome[batSpecs[batI + 1]]))
    /\ batCalls' = [batCalls EXCEPT ![batSpecs[batI + 1]] = @ + 1]
    /\ batI' = batI + 1
    /\ UNCHANGED <<batInput, batPending, batSummary, batThrown, batPc, batOthers>>

\* executeSequential: the loop condition fails, return results.
SequentialDone ==
    /\ batPc = "sequential"
    /\ ~(batI < Len(batSpecs))
    /\ batPc' = "summary"
    /\ UNCHANGED <<batInput, batI, batPending, batResults, batCalls, batSummary,
                   batThrown, batOthers>>

\* executeBatch computes (and prints) the summary.
Summarize ==
    /\ batPc = "summary"
    /\ batSummary' = [total |-> Len(batResults),
                      successful |-> CountSuccess(batResults, TRUE),
                      failed |-> CountSuccess(batResults, FALSE)]
    /\ batPc' = "finally"
    /\ UNCHANGED <<batInput, batI, batPending, batResults, batCalls, batThrown, batOthers>>

\* The finally block with results.length > batchSize: every result's spec is
\* overwritten with null (0 here), in the objects summary.results holds.
FinallyClear ==
    /\ batPc = "finally"
    /\ Len(batResults) > batSize
    /\ batResults' = [k \in 1..Len(batResults) |-> [batResults[k] EXCEPT !.spec = 0]]
    /\ batPc' = "returned"
    /\ UNCHANGED <<batInput, batI, batPending, batCalls, batSummary, batThrown, batOthers>>

\* The finally block with results.length <= batchSize.
FinallyKeep ==
    /\ batPc = "finally"
    /\ ~(Len(batResults) > batSize)
    /\ batPc' = "returned"
    /\ UNCHANGED <<batInput, batI, batPending, batResults, batCalls, batSummary,
                   batThrown, batOthers>>

BatNext ==
    \/ BatchThrowEmpty \/ BatchBegin
    \/ ParallelGroup \/ ParallelSettle \/ ParallelDone
    \/ SequentialStep \/ SequentialDone
    \/ Summarize \/ FinallyClear \/ FinallyKeep

SpecBatch == BatInit /\ [][BatNext]_vars

\* The result processSpec gives for the spec at position k of the input.
OwnResult(k) == ProcessSpec(batSpecs[k], batOutcome[batSpecs[k]])

\* C5: when executeBatch returns, in either mode and whichever specs fail,
\* createGenerator was called exactly once for each input spec, every spec
\* has exactly one result carrying its own success flag and error message
\* (as many successes as specs whose generator returns, one result with its
\* message for each spec whose generator throws), and
\* total = successful + failed = the number of input specs.
C5_Isolation ==
    batPc = "returned" =>
        /\ \A k \in 1..Len(batSpecs) : batCalls[batSpecs[k]] = 1
        /\ Len(batResults) = Len(batSpecs)
        /\ \A k \in 1..Len(batSpecs) :
              ~OwnResult(k).success =>
                  Cardinality({j \in 1..Len(batResults) :
                                  /\ ~batResults[j].success
                                  /\ batResults[j].error = OwnResult(k).error}) = 1
        /\ CountSuccess(batResults, TRUE)
              = Cardinality({k \in 1..Len(batSpecs) : OwnResult(k).success})
        /\ batSummary.total = Len(batSpecs)
        /\ batSummary.total = batSummary.successful + batSummary.failed
        /\ batSummary.failed
              = Cardinality({k \in 1..Len(batSpecs) : ~OwnResult(k).success})

\* C5 witness: a parallel run in groups of 2 over three specs of which the
\* first and the last fail has returned, with one success and two failures.
C5_Witness ==
    /\ batPc = "returned"
    /\ batMode = "parallel" /\ batSize = 2 /\ Len(batSpecs) = 3
    /\ batOutcome = <<"error", "ok", "value">>
    /\ batSummary = [total |-> 3, successful |-> 1, failed |-> 2]

\* C6: when executeBatch returns, results[k] is the result of specs[k] for
\* every position k: it has that spec's success flag and error message.
C6_InputOrder ==
    batPc = "returned" =>
        /\ Len(batResults) = Len(batSpecs)
        /\ \A k \in 1..Len(batSpecs) :
              /\ batResults[k].success = OwnResult(k).success
              /\ batResults[k].error = OwnResult(k).error

\* C6 witness: a parallel run in groups of 2 over three specs, so that the
\* last spec is in a later group than the first two, with the middle one
\* failing.
C6_Witness ==
    /\ batPc = "returned"
    /\ batMode = "parallel" /\ batSize = 2 /\ Len(batSpecs) = 3
    /\ batOutcome = <<"ok", "error", "ok">>
    /\ batResults[2].error = <<"message", 2>>
    /\ batResults[3].success

MaxKeys == 3
MaxValues == 2
MaxCacheSize == 3

Keys == 1..MaxKeys

\* A stored value: an object with an identity, null, or undefined.
Undefined == [tag |-> "undefined", id |-> 0, kind |-> "undefined"]
NullValue == [tag |-> "null", id |-> 0, kind |-> "null"]
Object(id, kind) == [tag |-> "obj", id |-> id, kind |-> kind]

LruValues == {Undefined} \cup {Object(v, "value") : v \in 1..MaxValues}

Entry(key, value) == [key |-> key, value |-> value]

\* this.cache.has(key)
LruHas(cache, key) == \E i \in 1..Len(cache) : cache[i].key = key

LruKeys(cache) == {cache[i].key : i \in 1..Len(cache)}

\* this.cache.get(key)
LruValue(cache, key) ==
    IF LruHas(cache, key)
    THEN cache[CHOOSE i \in 1..Len(cache) : cache[i].key = key].value
    ELSE Undefined

\* this.cache.delete(key)
SelectSeqNot(cache, key) ==
    LET Keep(e) == e.key # key IN SelectSeq(cache, Keep)

\* What get(key) returns.
LruGetResult(cache, key) == LruValue(cache, key)

\* Mutant of LruAfterGet: get leaves the entry where it is.
LruAfterGetNoMove(cache, key) == cache

\* The Map after get(key): an entry with a defined value moves to the end.
LruAfterGet(cache, key) ==
    IF LruHas(cache, key) /\ LruValue(cache, key) # Undefined
    THEN Append(SelectSeqNot(cache, key), Entry(key, LruValue(cache, key)))
    ELSE cache

\* Mutant of LruAfterSet: the oldest entry is never deleted.
LruAfterSetNoEvict(cache, maxSize, key, value) ==
    Append(SelectSeqNot(cache, key), Entry(key, value))

\* The Map after set(key, value): the entry is (re)inserted at the end, and
\* the first entry is deleted when the size exceeds maxSize.
LruAfterSet(cache, maxSize, key, value) ==
    LET inserted == Append(SelectSeqNot(cache, key), Entry(key, value))
    IN  IF Len(inserted) > maxSize THEN Tail(inserted) ELSE inserted

\* History: key becomes the most recently used one.
Used(use, key) ==
    LET Keep(k) == k # key IN Append(SelectSeq(use, Keep), key)

LruInit ==
    /\ LruOthersIdle
    /\ cacheMap = <<>>
    /\ cacheMax \in 0..MaxCacheSize
    /\ cacheOp = [op |-> "new", key |-> 0, value |-> Undefined]
    /\ cacheUse = <<>>

\* cache.get(key)
LruGet ==
    \E key \in Keys :
        /\ cacheOp' = [op |-> "get", key |-> key, value |-> LruGetResult(cacheMap, key)]
        /\ cacheMap' = LruAfterGet(cacheMap, key)
        /\ cacheUse' = IF LruGetResult(cacheMap, key) # Undefined
                       THEN Used(cacheUse, key) ELSE cacheUse
        /\ UNCHANGED <<cacheMax, lruOthers>>

\* cache.set(key, value)
LruSet ==
    \E key \in Keys, value \in LruValues :
        /\ cacheOp' = [op |-> "set", key |-> key, value |-> value]
        /\ cacheMap' = LruAfterSet(cacheMap, cacheMax, key, value)
        /\ cacheUse' = Used(cacheUse, key)
        /\ UNCHANGED <<cacheMax, lruOthers>>

LruNext == LruGet \/ LruSet

SpecLru == LruInit /\ [][LruNext]_vars

\* C8: a cache constructed with maximum size n never holds more than n
\* entries, whatever get and set calls are made.
C8_SizeBounded == Len(cacheMap) <= cacheMax

\* C8 witness: a full cache of at least two entries after a set that had to
\* evict (a key that was used is no longer in the cache).
C8_Witness ==
    /\ cacheOp.op = "set"
    /\ cacheMax >= 2
    /\ Len(cacheMap) = cacheMax
    /\ \E i \in 1..Len(cacheUse) : cacheUse[i] \notin LruKeys(cacheMap)

\* The least recently used key among those in the cache, by the history of
\* uses (a get that returned a value, or a set).
LeastRecentlyUsed(cache, use) ==
    use[CHOOSE i \in 1..Len(use) :
            /\ use[i] \in LruKeys(cache)
            /\ \A j \in 1..(i - 1) : use[j] \notin LruKeys(cache)]

\* The step is a set that makes the cache exceed its maximum size.
SetOverflows ==
    /\ cacheOp'.op = "set"
    /\ cacheMax >= 1
    /\ ~LruHas(cacheMap, cacheOp'.key)
    /\ Len(cacheMap) >= cacheMax

\* C9: a set that makes the cache (of maximum size at least 1) exceed its
\* maximum size evicts exactly one entry, the least recently used one; the
\* key just set and every other key stay, with their values.
C9_EvictsLeastRecentlyUsed ==
    [][SetOverflows =>
          LET victim == LeastRecentlyUsed(cacheMap, cacheUse)
          IN  /\ victim # cacheOp'.key
              /\ LruKeys(cacheMap') = (LruKeys(cacheMap) \cup {cacheOp'.key}) \ {victim}
              /\ LruValue(cacheMap', cacheOp'.key) = cacheOp'.value
              /\ \A k \in LruKeys(cacheMap) \ {victim} :
                    LruValue(cacheMap', k) = LruValue(cacheMap, k)]_vars

\* C9 witness: after an eviction the oldest inserted key is still in the
\* cache because a get refreshed it: key 1 was set first, keys 2 and 3 later,
\* and the cache of size 2 holds 1 and 3.
C9_Witness ==
    /\ cacheMax = 2
    /\ cacheOp.op = "set" /\ cacheOp.key = 3
    /\ cacheUse = <<2, 1, 3>>
    /\ LruKeys(cacheMap) = {1, 3}

(***************************************************************************)
(*                          Cached spec loading                            *)
(***************************************************************************)

\* Bounds of the loading model: input paths, parsed documents (each parse
\* makes a new object), and OpenApiK6Generator instances.
MaxPaths == 2
MaxObjects == 3
MaxGenerators == 2

\* The maxSize of the static specCache of both generators.
SpecCacheSize == 50

Paths == 1..MaxPaths
Generators == 1..MaxGenerators

\* What an input file can hold: a document with an `openapi` field, a
\* document (an object) with neither `openapi` nor `swagger`, an empty
\* document (YAML parses it to null), or text that is neither YAML nor JSON;
\* or the file does not exist.
DocKinds == {"openapi", "plain", "null", "garbage", "absent"}

\* parseYaml(content) / JSON.parse(content) for content that parses.
Parsed(kind, id) == IF kind = "null" THEN NullValue ELSE Object(id, kind)

Returned(value) == [threw |-> "none", value |-> value]
Thrown(error) == [threw |-> error, value |-> Undefined]

\* if (cached) / if (this.spec)
Truthy(value) == value.tag = "obj"

\* loadOpenAPISpec -> parseOpenAPISpecFromString: a missing file is a
\* FileOperationError, unparsable text a SpecValidationError; with validate, `"swagger" in spec` throws a
\* TypeError for null and a document without version field is a
\* SpecValidationError.
LoadOpenAPISpec(kind, id, validate) ==
    CASE kind = "absent" -> Thrown("FileOperationError")
      [] kind = "garbage" -> Thrown("SpecValidationError")
      [] kind = "null" /\ validate -> Thrown("TypeError")
      [] kind = "plain" /\ validate -> Thrown("SpecValidationError")
      [] OTHER -> Returned(Parsed(kind, id))

\* The body of PlaywrightGenerator.parseSpec after the cache miss: as above,
\* always validating, and with every error that is not a
\* SpecValidationError wrapped in a FileOperationError.
PlaywrightLoad(kind, id) ==
    CASE kind = "absent" -> Thrown("FileOperationError")
      [] kind = "garbage" -> Thrown("SpecValidationError")
      [] kind = "null" -> Thrown("FileOperationError")
      [] kind = "plain" -> Thrown("SpecValidationError")
      [] OTHER -> Returned(Parsed(kind, id))

\* Mutant of CachedHit: the cached value is ignored.
CachedHitNever(cached) == FALSE

\* if (cached) return cached;
CachedHit(cached) == Truthy(cached)

\* A load through the cache: cache.get(path), then either the cached value
\* or the loaded one, which is cache.set unless loading threw.  `loaded` is
\* what loading gives on a miss.  Yields the outcome and the cache after.
ThroughCache(cache, maxSize, path, loaded) ==
    LET cached == LruGetResult(cache, path)
        afterGet == LruAfterGet(cache, path)
    IN  IF CachedHit(cached)
        THEN [hit |-> TRUE, out |-> Returned(cached), cache |-> afterGet]
        ELSE IF loaded.threw # "none"
        THEN [hit |-> FALSE, out |-> loaded, cache |-> afterGet]
        ELSE [hit |-> FALSE, out |-> loaded,
              cache |-> LruAfterSet(afterGet, maxSize, path, loaded.value)]

\* loadOpenAPISpecCached(inputPath, cache, { validate })
LoadOpenAPISpecCached(cache, maxSize, path, validate, kind, id) ==
    ThroughCache(cache, maxSize, path, LoadOpenAPISpec(kind, id, validate))

\* PlaywrightGenerator.parseSpec()
PlaywrightParse(cache, maxSize, path, kind, id) ==
    ThroughCache(cache, maxSize, path, PlaywrightLoad(kind, id))

LastLoad(call, path, validate, res) ==
    [call |-> call, path |-> path, validate |-> validate, hit |-> res.hit,
     threw |-> res.out.threw, value |-> res.out.value]

\* The identity counter after a load: a parse that made an object used one.
NextObjAfter(res) ==
    IF ~res.hit /\ res.out.threw = "none" /\ Truthy(res.out.value)
    THEN ldNextObj + 1 ELSE ldNextObj

LdInit ==
    /\ LdOthersIdle
    /\ cacheMap = <<>>
    /\ cacheMax \in (1..MaxCacheSize) \cup {SpecCacheSize}
    /\ cacheOp = <<>>
    /\ cacheUse = <<>>
    /\ ldOwner \in {"playwright", "k6", "api"}
    /\ ldFiles \in [Paths -> DocKinds]
    /\ ldNextObj = 1
    /\ ldInput \in [Generators -> Paths]
    /\ ldOwner # "k6" => ldInput = [g \in Generators |-> 1]
    /\ ldMemo = [g \in Generators |-> NullValue]
    /\ ldLast = [call |-> "none", path |-> 0, validate |-> TRUE, hit |-> FALSE,
                 threw |-> "none", value |-> Undefined]

\* The file at an input path is rewritten.
ChangeFile ==
    /\ \E path \in Paths, kind \in DocKinds :
          /\ kind # ldFiles[path]
          /\ ldFiles' = [ldFiles EXCEPT ![path] = kind]
    /\ UNCHANGED <<cacheVars, ldOwner, ldNextObj, ldInput, ldMemo, ldLast, ldOthers>>

\* A PlaywrightGenerator with options.input = path calls parseSpec().
PlaywrightParseSpec ==
    /\ ldOwner = "playwright"
    /\ ldNextObj <= MaxObjects
    /\ \E path \in Paths :
          LET res == PlaywrightParse(cacheMap, cacheMax, path, ldFiles[path], ldNextObj)
          IN  /\ cacheMap' = res.cache
              /\ ldNextObj' = NextObjAfter(res)
              /\ ldLast' = LastLoad("parseSpec", path, TRUE, res)
    /\ UNCHANGED <<cacheMax, cacheOp, cacheUse, ldOwner, ldFiles, ldInput, ldMemo, ldOthers>>

\* loadOpenAPISpecCached is called with the cache, with or without
\* validation.
LoadCached ==
    /\ ldOwner = "api"
    /\ ldNextObj <= MaxObjects
    /\ \E path \in Paths, validate \in BOOLEAN :
          LET res == LoadOpenAPISpecCached(cacheMap, cacheMax, path, validate,
                                           ldFiles[path], ldNextObj)
          IN  /\ cacheMap' = res.cache
              /\ ldNextObj' = NextObjAfter(res)
              /\ ldLast' = LastLoad("loadOpenAPISpecCached", path, validate, res)
    /\ UNCHANGED <<cacheMax, cacheOp, cacheUse, ldOwner, ldFiles, ldInput, ldMemo, ldOthers>>

\* OpenApiK6Generator.parseSpec() of a generator that has this.spec: it is
\* returned, and the cache is not consulted.
K6ParseSpecMemo ==
    /\ ldOwner = "k6"
    /\ \E g \in Generators :
          /\ Truthy(ldMemo[g])
          /\ ldLast' = [call |-> "memo", path |-> ldInput[g], validate |-> TRUE,
                        hit |-> FALSE, threw |-> "none", value |-> ldMemo[g]]
    /\ UNCHANGED <<cacheVars, ldOwner, ldFiles, ldNextObj, ldInput, ldMemo, ldOthers>>

\* OpenApiK6Generator.parseSpec() of a generator without this.spec:
\* this.spec = loadOpenAPISpecCached(this.options.input, specCache).
K6ParseSpecLoad ==
    /\ ldOwner = "k6"
    /\ ldNextObj <= MaxObjects
    /\ \E g \in Generators :
          /\ ~Truthy(ldMemo[g])
          /\ LET res == LoadOpenAPISpecCached(cacheMap, cacheMax, ldInput[g], TRUE,
                                              ldFiles[ldInput[g]], ldNextObj)
             IN  /\ cacheMap' = res.cache
                 /\ ldNextObj' = NextObjAfter(res)
                 /\ ldLast' = LastLoad("loadOpenAPISpecCached", ldInput[g], TRUE, res)
                 /\ ldMemo' = IF res.out.threw = "none"
                              THEN [ldMemo EXCEPT ![g] = res.out.value] ELSE ldMemo
    /\ UNCHANGED <<cacheMax, cacheOp, cacheUse, ldOwner, ldFiles, ldInput, ldOthers>>

LdNext ==
    \/ ChangeFile \/ PlaywrightParseSpec \/ LoadCached
    \/ K6ParseSpecMemo \/ K6ParseSpecLoad

SpecLoad == LdInit /\ [][LdNext]_vars

\* A step that is a load through the cache (a memoised return of an
\* OpenApiK6Generator is not one).
CachedLoadStep ==
    /\ ldFiles' = ldFiles
    /\ ldLast'.call \in {"parseSpec", "loadOpenAPISpecCached"}
    /\ <<cacheMap, ldLast, ldNextObj, ldMemo>>' # <<cacheMap, ldLast, ldNextObj, ldMemo>>

\* C10: cache entries are immutable once inserted.  When a load through the
\* cache is made for a path whose entry is a parsed spec (an object), the
\* load returns that same object without loading the file, and the entry is
\* still there afterwards with the same object, whatever the file holds by
\* then and whichever generator instance asks.  Entries of other paths may be
\* evicted by loads of other paths.  (An entry that is not an object, the
\* null that an empty document parses to under validate: false, fails the
\* `if (cached)` test and is loaded again.)
C10_EntriesImmutable ==
    [][CachedLoadStep /\ LruHas(cacheMap, ldLast'.path)
                      /\ Truthy(LruValue(cacheMap, ldLast'.path))
          => /\ ldLast'.hit
             /\ ldLast'.threw = "none"
             /\ ldLast'.value = LruValue(cacheMap, ldLast'.path)
             /\ LruHas(cacheMap', ldLast'.path)
             /\ LruValue(cacheMap', ldLast'.path) = LruValue(cacheMap, ldLast'.path)
             /\ ldNextObj' = ldNextObj]_vars

\* A load was answered from the cache with the object cached earlier although
\* the file has been rewritten since, and the entry still holds that object.
C10_Witness ==
    /\ ldLast.hit
    /\ Truthy(ldLast.value)
    /\ ldFiles[ldLast.path] # ldLast.value.kind
    /\ LruHas(cacheMap, ldLast.path)
    /\ LruValue(cacheMap, ldLast.path) = ldLast.value

(***************************************************************************)
(*                          Enum member naming                             *)
(***************************************************************************)

\* Bound: the number of values of one enum.
MaxEnumValues == 3

\* Strings are sequences of characters.  The letters of the model, lower
\* case and upper case at the same index, and the digits.
LowerLetters == <<"a", "b", "f", "o", "r">>
UpperLetters == <<"A", "B", "F", "O", "R">>
DigitChars == <<"0", "1", "2", "3", "4", "5", "6", "7", "8", "9">>

Range(seq) == {seq[i] : i \in DOMAIN seq}

IndexIn(seq, c) == CHOOSE i \in DOMAIN seq : seq[i] = c

\* c.toUpperCase() and c.toLowerCase() of one character
ToUpperCase(c) == IF c \in Range(LowerLetters) THEN UpperLetters[IndexIn(LowerLetters, c)] ELSE c
ToLowerCase(c) == IF c \in Range(UpperLetters) THEN LowerLetters[IndexIn(UpperLetters, c)] ELSE c

IsDigit(c) == c \in Range(DigitChars)

\* [a-zA-Z0-9]
IsAlphanumeric(c) == c \in Range(LowerLetters) \cup Range(UpperLetters) \cup Range(DigitChars)

\* String(n) of a non-negative integer
RECURSIVE DecimalString(_)
DecimalString(n) ==
    IF n < 10 THEN <<DigitChars[n + 1]>>
    ELSE DecimalString(n \div 10) \o <<DigitChars[(n % 10) + 1]>>

\* The string and number values of the model as typed values.
StringValue(chars) == [type |-> "string", str |-> chars, num |-> 0, bool |-> FALSE]
NumberValue(n) == [type |-> "number", str |-> <<>>, num |-> n, bool |-> FALSE]
BooleanValue(b) == [type |-> "boolean", str |-> <<>>, num |-> 0, bool |-> b]

\* The strings enum values are drawn from: the empty string, bare signs,
\* separators only, letters in both cases, signed and digit-led strings, a
\* string that ends like a collision suffix, and the three spellings of
\* "foo bar".
EnumStrings ==
    { <<>>, <<"-">>, <<"+">>, <<"_">>,
      <<"a">>, <<"A">>, <<"-", "a">>, <<"+", "a">>,
      <<"a", "2">>, <<"2">>, <<"a", "_", "b">>, <<"a", "B">>,
      <<"f", "o", "o", "_", "b", "a", "r">>,
      <<"f", "o", "o", "-", "b", "a", "r">>,
      <<"F", "o", "o", "B", "a", "r">> }

EnumNumbers == {-2, 0, 2}

EnumValues ==
    {StringValue(chars) : chars \in EnumStrings}
        \cup {NumberValue(n) : n \in EnumNumbers}
        \cup {BooleanValue(b) : b \in BOOLEAN}

EnumTypeNames == {"string", "number", "boolean"}

\* .replace(/[^a-zA-Z0-9]/g, " ").split(/\s+/).filter(Boolean): the maximal
\* runs of alphanumeric characters, in order.  `word` is the run being read.
RECURSIVE SplitWords(_, _)
SplitWords(chars, word) ==
    IF chars = <<>>
    THEN IF word = <<>> THEN <<>> ELSE <<word>>
    ELSE IF IsAlphanumeric(Head(chars))
    THEN SplitWords(Tail(chars), Append(word, Head(chars)))
    ELSE IF word = <<>>
    THEN SplitWords(Tail(chars), <<>>)
    ELSE <<word>> \o SplitWords(Tail(chars), <<>>)

\* word.charAt(0).toUpperCase() + word.slice(1).toLowerCase()
Capitalize(word) ==
    [i \in DOMAIN word |-> IF i = 1 THEN ToUpperCase(word[i]) ELSE ToLowerCase(word[i])]

\* .map(...).join("")
RECURSIVE JoinCapitalized(_)
JoinCapitalized(words) ==
    IF words = <<>> THEN <<>>
    ELSE Capitalize(Head(words)) \o JoinCapitalized(Tail(words))

\* The PascalCase conversion of stringToEnumMember, with a leading digit
\* prefixed and an empty result replaced.
PascalCase(chars) ==
    LET result == JoinCapitalized(SplitWords(chars, <<>>))
    IN  IF result = <<>> THEN <<"V", "a", "l", "u", "e">>
        ELSE IF IsDigit(result[1]) THEN <<"V", "a", "l", "u", "e">> \o result
        ELSE result

\* The uniqueKey registerKey leaves its while loop with.
RECURSIVE RegisterLoop(_, _, _, _)
RegisterLoop(key, uniqueKey, counter, used) ==
    IF uniqueKey \in used
    THEN RegisterLoop(key, key \o DecimalString(counter), counter + 1, used)
    ELSE uniqueKey

\* registerKey(key, usedKeys): the key returned (and added to usedKeys)
registerKey(key, used) == RegisterLoop(key, key, 2, used)

\* stringToEnumMember(value, usedKeys)
stringToEnumMember(value, used) ==
    IF value = <<>> THEN registerKey(<<"E", "m", "p", "t", "y">>, used)
    ELSE LET suffix == IF value[1] = "-" THEN <<"D", "e", "s", "c">>
                       ELSE IF value[1] = "+" THEN <<"A", "s", "c">>
                       ELSE <<>>
             processValue == IF value[1] \in {"-", "+"} THEN Tail(value) ELSE value
         IN  IF processValue = <<>>
             THEN registerKey(IF suffix # <<>> THEN suffix ELSE <<"E", "m", "p", "t", "y">>, used)
             ELSE registerKey(PascalCase(processValue) \o suffix, used)

\* numericToEnumMember(value, usedKeys) for typeof value === "number"
numericToEnumMember(value, used) ==
    registerKey(<<"V", "a", "l", "u", "e">>
                   \o (IF value < 0 THEN <<"N", "e", "g">> \o DecimalString(-value)
                       ELSE DecimalString(value)),
                used)

\* String(value) of a boolean
BooleanString(b) == IF b THEN <<"t", "r", "u", "e">> ELSE <<"f", "a", "l", "s", "e">>

\* classifyEnumType(values): "boolean" when every value is a boolean, and
\* likewise "string" and "number"; "mixed" otherwise.
classifyEnumType(types) ==
    IF \A i \in DOMAIN types : types[i] = "boolean" THEN "boolean"
    ELSE IF \A i \in DOMAIN types : types[i] = "string" THEN "string"
    ELSE IF \A i \in DOMAIN types : types[i] = "number" THEN "number"
    ELSE "mixed"

\* The callback of values.map in generateTsEnum and generateConstObject:
\* the member identifier and the usedKeys after it.
MemberName(value, used) ==
    CASE value.type = "string" -> stringToEnumMember(value.str, used)
      [] value.type = "number" -> numericToEnumMember(value.num, used)
      [] OTHER -> BooleanString(value.bool)

UsedKeysAfter(value, used) ==
    IF value.type \in {"string", "number"} THEN used \cup {MemberName(value, used)} ELSE used

\* generateEnum(name, values, options) is called.
EnumInit ==
    /\ EnumOthersIdle
    /\ enumFormat \in {"enum", "union", "const-object"}
    /\ enumTypes \in UNION {[1..n -> EnumTypeNames] : n \in 0..MaxEnumValues}
    /\ enumValues = <<>>
    /\ enumMembers = <<>>
    /\ usedKeys = {}
    /\ enumPc = "call"

\* format "union", or a boolean enum: generateUnion, which names no member.
GenerateUnion ==
    /\ enumPc = "call"
    /\ enumFormat = "union" \/ classifyEnumType(enumTypes) = "boolean"
    /\ enumPc' = "done"
    /\ UNCHANGED <<enumFormat, enumTypes, enumValues, enumMembers, usedKeys, enumOthers>>

\* generateTsEnum / generateConstObject start values.map with a new usedKeys.
GenerateMembers ==
    /\ enumPc = "call"
    /\ enumFormat \in {"enum", "const-object"}
    /\ classifyEnumType(enumTypes) # "boolean"
    /\ enumPc' = "members"
    /\ usedKeys' = {}
    /\ UNCHANGED <<enumFormat, enumTypes, enumValues, enumMembers, enumOthers>>

\* values.map reaches the next value, of the type the input has there.
NameMember ==
    /\ enumPc = "members"
    /\ Len(enumValues) < Len(enumTypes)
    /\ \E value \in EnumValues :
          /\ value.type = enumTypes[Len(enumValues) + 1]
          /\ enumValues' = Append(enumValues, value)
          /\ enumMembers' = Append(enumMembers, MemberName(value, usedKeys))
          /\ usedKeys' = UsedKeysAfter(value, usedKeys)
    /\ UNCHANGED <<enumFormat, enumTypes, enumPc, enumOthers>>

\* values.map is through; the code is assembled and returned.
MembersDone ==
    /\ enumPc = "members"
    /\ Len(enumValues) = Len(enumTypes)
    /\ enumPc' = "done"
    /\ UNCHANGED <<enumFormat, enumTypes, enumValues, enumMembers, usedKeys, enumOthers>>

EnumNext == GenerateUnion \/ GenerateMembers \/ NameMember \/ MembersDone

SpecEnum == EnumInit /\ [][EnumNext]_vars

\* C11: the member identifiers of one enum-generation call are pairwise
\* distinct: no two positions of the values receive the same identifier.
C11_DistinctIdentifiers ==
    \A i, j \in DOMAIN enumMembers : i # j => enumMembers[i] # enumMembers[j]

(***************************************************************************)
(*                 Prefix stripping (pattern utilities)                    *)
(***************************************************************************)

\* input.startsWith(prefix)
StartsWith(input, prefix) ==
    /\ Len(prefix) <= Len(input)
    /\ SubSeq(input, 1, Len(prefix)) = prefix

\* input.substring(from), from counted from 0
Substring(input, from) == SubSeq(input, from + 1, Len(input))

\* input.split("/"): the segments between the slashes, empty ones included.
RECURSIVE SplitSlash(_, _)
SplitSlash(chars, segment) ==
    IF chars = <<>> THEN <<segment>>
    ELSE IF Head(chars) = "/" THEN <<segment>> \o SplitSlash(Tail(chars), <<>>)
    ELSE SplitSlash(Tail(chars), Append(segment, Head(chars)))

\* isGlobPattern(pattern): /[*?[\]{}!]/.test(pattern)
isGlobPattern(pattern) ==
    \E i \in DOMAIN pattern : pattern[i] \in {"*", "?", "[", "]", "{", "}", "!"}

\* One path segment against one pattern segment, for patterns whose only
\* magic characters are * (any run of characters) and ? (one character);
\* segments hold no "/".
RECURSIVE GlobSegment(_, _)
GlobSegment(segment, pattern) ==
    IF pattern = <<>> THEN segment = <<>>
    ELSE IF Head(pattern) = "*"
    THEN \/ GlobSegment(segment, Tail(pattern))
         \/ segment # <<>> /\ GlobSegment(Tail(segment), pattern)
    ELSE IF segment = <<>> THEN FALSE
    ELSE /\ Head(pattern) = "?" \/ Head(pattern) = Head(segment)
         /\ GlobSegment(Tail(segment), Tail(pattern))

\* minimatch's matchOne: segment by segment; a pattern segment with magic
\* does not match the empty segment; when the pattern is used up, what is
\* left of the file may only be the empty segment after a trailing slash.
RECURSIVE MatchOne(_, _)
MatchOne(file, pattern) ==
    IF pattern = <<>>
    THEN file = <<>> \/ file = <<<<>>>>
    ELSE IF file = <<>> THEN FALSE
    ELSE /\ IF isGlobPattern(Head(pattern))
            THEN Head(file) # <<>> /\ GlobSegment(Head(file), Head(pattern))
            ELSE Head(file) = Head(pattern)
         /\ MatchOne(Tail(file), Tail(pattern))

\* minimatch(testPrefix, pattern) for these patterns
minimatch(input, pattern) == MatchOne(SplitSlash(input, <<>>), SplitSlash(pattern, <<>>))

\* Mutant of LongestMatch: the first matching prefix is taken.
FirstMatch(input, pattern) ==
    LET matches == {i \in 1..Len(input) : minimatch(SubSeq(input, 1, i), pattern)}
    IN  IF matches = {} THEN -1 ELSE CHOOSE i \in matches : \A k \in matches : i <= k

\* longestMatch after the loop over i = 1..input.length
LongestMatch(input, pattern) ==
    LET matches == {i \in 1..Len(input) : minimatch(SubSeq(input, 1, i), pattern)}
    IN  IF matches = {} THEN -1 ELSE CHOOSE i \in matches : \A k \in matches : i >= k

\* The "ensure result starts with the specified character" block, for a
\* truthy ensureLeadingChar.
EnsureLeading(stripped, ensureLeadingChar) ==
    IF stripped = <<>> THEN ensureLeadingChar
    ELSE IF ~StartsWith(stripped, ensureLeadingChar) THEN ensureLeadingChar \o stripped
    ELSE stripped

\* stripPrefix(input, pattern, ensureLeadingChar) of the core pattern
\* utilities for one pattern; <<>> stands for an undefined or empty
\* argument.
stripPrefix(input, pattern, ensureLeadingChar) ==
    IF pattern = <<>> THEN input
    ELSE IF isGlobPattern(pattern)
    THEN LET longestMatch == LongestMatch(input, pattern)
         IN  IF longestMatch > 0
             THEN LET stripped == Substring(input, longestMatch)
                  IN  IF ensureLeadingChar # <<>>
                      THEN EnsureLeading(stripped, ensureLeadingChar)
                      ELSE IF stripped = <<>> THEN input ELSE stripped
             ELSE input
    ELSE IF StartsWith(input, pattern)
    THEN LET stripped == Substring(input, Len(pattern))
         IN  IF ensureLeadingChar # <<>>
             THEN EnsureLeading(stripped, ensureLeadingChar)
             ELSE stripped
    ELSE input

\* stripPrefix with an array of patterns: the first pattern that changes the
\* input decides.
RECURSIVE stripPrefixArray(_, _, _)
stripPrefixArray(input, patterns, ensureLeadingChar) ==
    IF patterns = <<>> THEN input
    ELSE LET result == stripPrefix(input, Head(patterns), ensureLeadingChar)
         IN  IF result # input THEN result
             ELSE stripPrefixArray(input, Tail(patterns), ensureLeadingChar)

\* pattern.trim() for patterns without inner white space
RECURSIVE TrimLeft(_)
TrimLeft(chars) ==
    IF chars # <<>> /\ Head(chars) = " " THEN TrimLeft(Tail(chars)) ELSE chars

RECURSIVE TrimRight(_)
TrimRight(chars) ==
    IF chars # <<>> /\ chars[Len(chars)] = " "
    THEN TrimRight(SubSeq(chars, 1, Len(chars) - 1)) ELSE chars

Trim(chars) == TrimRight(TrimLeft(chars))

\* stripPathPrefix(path, pattern)
stripPathPrefix(path, pattern) ==
    IF pattern = <<>> THEN path
    ELSE IF ~isGlobPattern(pattern)
    THEN LET trimmed == Trim(pattern)
             slashed == IF ~StartsWith(trimmed, <<"/">>) THEN <<"/">> \o trimmed ELSE trimmed
             normalizedPattern ==
                 IF slashed[Len(slashed)] = "/" /\ slashed # <<"/">>
                 THEN SubSeq(slashed, 1, Len(slashed) - 1) ELSE slashed
         IN  stripPrefix(path, normalizedPattern, <<"/">>)
    ELSE stripPrefix(path, pattern, <<"/">>)

(***************************************************************************)
(*              Content types, request bodies, responses                   *)
(***************************************************************************)

\* A content type is its media type and the way it is written: plainly, in
\* upper case, or with a charset parameter.
MediaTypes == {"application/json", "application/xml", "text/plain"}
Writings == {"plain", "upper", "charset"}

ContentType(media, writing) == [media |-> media, writing |-> writing]

NoContentType == [media |-> "undefined", writing |-> "undefined"]

ContentTypes == {ContentType(m, w) : m \in MediaTypes, w \in Writings}

\* normalizeContentType: contentType.split(";")[0].trim().toLowerCase()
normalizeContentType(contentType) == ContentType(contentType.media, "plain")

\* availableContentTypes.find(available => normalized(available) ===
\* normalized(preferred)): the first such element, or NoContentType.
FindMatch(available, preferred) ==
    LET hits == {i \in DOMAIN available :
                    normalizeContentType(available[i]) = normalizeContentType(preferred)}
    IN  IF hits = {} THEN NoContentType
        ELSE available[CHOOSE i \in hits : \A k \in hits : i <= k]

\* if (match): find returned an element, and it is not the empty string.
IsTruthyMatch(match) == match # NoContentType /\ match.media # ""

\* Mutant of FallBack: without a preferred match nothing is selected.
FallBackNone(available) == NoContentType

\* return availableContentTypes[0]
FallBack(available) == available[1]

\* The for loop of selectContentType over the preferred types that are left.
RECURSIVE SelectLoop(_, _)
SelectLoop(available, preferred) ==
    IF preferred = <<>> THEN FallBack(available)
    ELSE LET match == FindMatch(available, Head(preferred))
         IN  IF IsTruthyMatch(match) THEN match
             ELSE SelectLoop(available, Tail(preferred))

\* selectContentType(availableContentTypes, preferredContentTypes)
selectContentType(available, preferred) ==
    IF Len(available) = 0 THEN NoContentType ELSE SelectLoop(available, preferred)

\* DEFAULT_PREFERRED_CONTENT_TYPES
DefaultPreferredContentTypes == <<ContentType("application/json", "plain")>>

\* Schemas of media types: none, a reference to a named schema, or a
\* primitive type.
NoSchema == [kind |-> "none", name |-> ""]
RefSchema(name) == [kind |-> "ref", name |-> name]
TypeSchema(type) == [kind |-> "type", name |-> type]

Schemas == {RefSchema("User"), RefSchema("Pet"), TypeSchema("string"), TypeSchema("integer")}

\* schemaToTypeString(schema) for these schemas
schemaToTypeString(schema) ==
    CASE schema.kind = "none" -> "unknown"
      [] schema.kind = "ref" -> schema.name
      [] schema.name \in {"integer", "number"} -> "number"
      [] OTHER -> schema.name

\* An entry of a content map: the content type that is its key and the
\* schema of its media type object.
MediaEntry(contentType, schema) == [key |-> contentType, schema |-> schema]

Keys2(content) == [i \in DOMAIN content |-> content[i].key]

\* resolved.content[contentType]?.schema
SchemaAt(content, contentType) ==
    LET i == CHOOSE k \in DOMAIN content : content[k].key = contentType
    IN  content[i].schema

\* A request body or response after resolveRequestBodyRef / resolveResponseRef:
\* an object with a content map (possibly empty), or one without (an object
\* without content, or a reference that does not resolve).
WithContent(content, required) == [hasContent |-> TRUE, content |-> content, required |-> required]
WithoutContent == [hasContent |-> FALSE, content |-> <<>>, required |-> FALSE]
NoBody == [hasContent |-> FALSE, content |-> <<>>, required |-> TRUE]

NoRequestBody == [contentType |-> NoContentType, required |-> FALSE, typeName |-> "undefined"]

\* The "Extract request body info" block of extractEndpoints.
RequestBodyInfo(requestBody, preferred) ==
    IF requestBody = NoBody \/ ~requestBody.hasContent THEN NoRequestBody
    ELSE LET contentType == selectContentType(Keys2(requestBody.content), preferred)
         IN  IF contentType = NoContentType THEN NoRequestBody
             ELSE [contentType |-> contentType,
                   required |-> requestBody.required,
                   typeName |-> schemaToTypeString(SchemaAt(requestBody.content, contentType))]

\* Status codes, the keys of operation.responses, as strings.
StatusCodes ==
    { <<"2", "0", "0">>, <<"2", "0", "1">>, <<"2", "0", "4">>, <<"2", "X", "X">>,
      <<"4", "0", "4">>, <<"d", "e", "f", "a", "u", "l", "t">> }

\* An integer-like key: Object.entries lists these first, in ascending order.
IsIntegerKey(status) == \A i \in DOMAIN status : IsDigit(status[i])

\* parseInt(text, 10) of a string of digits
RECURSIVE DigitsValue(_, _)
DigitsValue(chars, value) ==
    IF chars = <<>> THEN value
    ELSE DigitsValue(Tail(chars), value * 10 + (IndexIn(DigitChars, Head(chars)) - 1))

\* The leading digits of a string
RECURSIVE LeadingDigits(_)
LeadingDigits(chars) ==
    IF chars = <<>> \/ ~IsDigit(Head(chars)) THEN <<>>
    ELSE <<Head(chars)>> \o LeadingDigits(Tail(chars))

\* parseInt(statusCode, 10) for a status code that starts with a digit
ParseInt(status) == DigitsValue(LeadingDigits(status), 0)

\* An entry of operation.responses: the status code and the resolved response.
ResponseEntry(status, response) == [status |-> status, response |-> response]

\* The order Object.entries gives the entries of a responses object:
\* integer-like keys ascending, then the other keys.
EntriesOrdered(entries) ==
    \A i, j \in DOMAIN entries :
        i < j =>
            /\ entries[i].status # entries[j].status
            /\ IsIntegerKey(entries[j].status) =>
                  /\ IsIntegerKey(entries[i].status)
                  /\ ParseInt(entries[i].status) < ParseInt(entries[j].status)

NoSuccess == [type |-> "undefined", tracked |-> FALSE, statusCode |-> 0]

\* successResponseType and successStatusCode as one value: tracked says
\* whether successStatusCode was assigned.
Success(type, acc) == [type |-> type, tracked |-> acc.tracked, statusCode |-> acc.statusCode]

\* Mutant of IsSuccessStatus: every response is considered.
IsSuccessStatusAny(status) == TRUE

\* statusCode.startsWith("2")
IsSuccessStatus(status) == StartsWith(status, <<"2">>)

\* The "Extract success response type" loop of extractEndpoints over the
\* entries that are left; acc carries successStatusCode.
RECURSIVE SuccessLoop(_, _, _, _)
SuccessLoop(entries, preferred, trackStatusCode, acc) ==
    IF entries = <<>> THEN Success("undefined", acc)
    ELSE IF ~IsSuccessStatus(Head(entries).status)
    THEN SuccessLoop(Tail(entries), preferred, trackStatusCode, acc)
    ELSE LET resolved == Head(entries).response
             acc2 == IF trackStatusCode
                     THEN [acc EXCEPT !.tracked = TRUE,
                                      !.statusCode = ParseInt(Head(entries).status)]
                     ELSE acc
         IN  IF resolved.hasContent
             THEN LET contentType == selectContentType(Keys2(resolved.content), preferred)
                  IN  IF contentType # NoContentType
                         /\ SchemaAt(resolved.content, contentType) # NoSchema
                      THEN Success(schemaToTypeString(SchemaAt(resolved.content, contentType)), acc2)
                      ELSE SuccessLoop(Tail(entries), preferred, trackStatusCode, acc2)
             ELSE IF trackStatusCode
             THEN Success("void", acc2)
             ELSE SuccessLoop(Tail(entries), preferred, trackStatusCode, acc2)

\* successResponseType / successStatusCode of an operation
SuccessResponse(responses, preferred, trackStatusCode) ==
    SuccessLoop(responses, preferred, trackStatusCode, NoSuccess)

(***************************************************************************)
(*                           extractEndpoints                              *)
(***************************************************************************)

\* Bounds: the paths of a spec and the operations it holds.
MaxSpecPaths == 2
MaxOperations == 2

\* HTTP_METHODS
HTTP_METHODS == <<"get", "post", "put", "patch", "delete", "head", "options">>

\* The characters of a method name, and method.toUpperCase()
MethodChars(method) ==
    CASE method = "get" -> <<"g", "e", "t">>
      [] method = "post" -> <<"p", "o", "s", "t">>
      [] method = "put" -> <<"p", "u", "t">>
      [] method = "patch" -> <<"p", "a", "t", "c", "h">>
      [] method = "delete" -> <<"d", "e", "l", "e", "t", "e">>
      [] method = "head" -> <<"h", "e", "a", "d">>
      [] OTHER -> <<"o", "p", "t", "i", "o", "n", "s">>

MethodUpperCase(method) ==
    CASE method = "get" -> "GET"
      [] method = "post" -> "POST"
      [] method = "put" -> "PUT"
      [] method = "patch" -> "PATCH"
      [] method = "delete" -> "DELETE"
      [] method = "head" -> "HEAD"
      [] OTHER -> "OPTIONS"

\* The keys of spec.paths the specs are built from, and the prefixes of
\* options.stripPathPrefix (<<>>: none).
SpecPaths ==
    { <<"/", "a">>, <<"/", "o", "/", "a">>, <<"/", "a", "/", "{", "b", "}">> }

PathPrefixes == { <<>>, <<"/", "o">>, <<"/", "o", "*">> }

\* The methods under which the path items of the specs hold operations.
OperationMethods == {"get", "post"}

\* operationId of the operations (<<>>: none)
OperationIds == { <<>>, <<"a", "-", "b">>, <<"a", "_", "b">> }

\* requestBody and responses of the operations
JsonUser == MediaEntry(ContentType("application/json", "plain"), RefSchema("User"))
XmlPet == MediaEntry(ContentType("application/xml", "plain"), RefSchema("Pet"))

OperationShapes ==
    { [requestBody |-> NoBody,
       responses |-> <<ResponseEntry(<<"2", "0", "0">>, WithContent(<<JsonUser>>, FALSE))>>],
      [requestBody |-> WithContent(<<XmlPet>>, TRUE),
       responses |-> <<ResponseEntry(<<"2", "0", "4">>, WithoutContent),
                       ResponseEntry(<<"4", "0", "4">>, WithContent(<<JsonUser>>, FALSE))>>] }

Operations ==
    {[operationId |-> id, requestBody |-> shape.requestBody, responses |-> shape.responses] :
        id \in OperationIds, shape \in OperationShapes}

\* segment.charAt(0).toUpperCase() + segment.slice(1)
UpperFirst(word) == [i \in DOMAIN word |-> IF i = 1 THEN ToUpperCase(word[i]) ELSE word[i]]

LowerFirst(word) == [i \in DOMAIN word |-> IF i = 1 THEN ToLowerCase(word[i]) ELSE word[i]]

\* One segment of a path in a method name: {param} gives ByParam.
SegmentName(segment) ==
    IF Len(segment) >= 2 /\ segment[1] = "{" /\ segment[Len(segment)] = "}"
    THEN <<"B", "y">> \o UpperFirst(SubSeq(segment, 2, Len(segment) - 1))
    ELSE UpperFirst(segment)

RECURSIVE JoinSegmentNames(_)
JoinSegmentNames(segments) ==
    IF segments = <<>> THEN <<>>
    ELSE (IF Head(segments) = <<>> THEN <<>> ELSE SegmentName(Head(segments)))
            \o JoinSegmentNames(Tail(segments))

\* pathToPascalCase(path): "/users/{userId}" gives "UsersByUserId", "/" and
\* "" give "Root".
pathToPascalCase(path) ==
    LET name == JoinSegmentNames(SplitSlash(path, <<>>))
    IN  IF name = <<>> THEN <<"R", "o", "o", "t">> ELSE name

\* generateHttpMethodName(method, path): ("get", "/users") gives "getUsers".
generateHttpMethodName(method, path) == MethodChars(method) \o pathToPascalCase(path)

RECURSIVE JoinWords(_)
JoinWords(words) ==
    IF words = <<>> THEN <<>> ELSE Capitalize(Head(words)) \o JoinWords(Tail(words))

\* sanitizeOperationId(operationId): "get-users", "get_users" and "GetUsers"
\* give "getUsers", "Get-User_ById" gives "getUserByid", "123operation"
\* gives "_123operation", "---" gives "operation".
sanitizeOperationId(operationId) ==
    LET words == SplitWords(operationId, <<>>)
    IN  IF words = <<>> THEN <<"o", "p", "e", "r", "a", "t", "i", "o", "n">>
        ELSE LET name == LowerFirst(Head(words)) \o JoinWords(Tail(words))
             IN  IF IsDigit(name[1]) THEN <<"_">> \o name ELSE name

\* options.operationFilters: none, or a filter that excludes methods.
NoFilters == [excludeMethods |-> {}]

OperationFilters == {NoFilters, [excludeMethods |-> {"post"}]}

\* shouldIncludeOperation(operation, path, method, filters)
shouldIncludeOperation(operation, path, method, filters) == method \notin filters.excludeMethods

\* The methodName of an operation
MethodName(operation, method, path, useOperationId) ==
    IF useOperationId /\ operation.operationId # <<>>
    THEN sanitizeOperationId(operation.operationId)
    ELSE generateHttpMethodName(method, path)

\* The descriptor pushed for an operation.  Of its fields the path
\* parameters, the query and header parameters and the documentation fields
\* are left out.
Endpoint(variant, operation, method, path, options) ==
    [path |-> path,
     method |-> IF variant = "core" THEN method ELSE MethodUpperCase(method),
     methodName |-> MethodName(operation, method, path, options.useOperationId),
     requestBody |-> IF variant = "core"
                     THEN RequestBodyInfo(operation.requestBody, options.preferredContentTypes)
                     ELSE NoRequestBody,
     success |-> IF variant = "core"
                 THEN SuccessResponse(operation.responses, options.preferredContentTypes,
                                      options.trackStatusCode)
                 ELSE NoSuccess]

\* Positions <<path index, method index>> in the order of the two loops.
Before(pos, other) ==
    \/ pos[1] < other[1]
    \/ pos[1] = other[1] /\ pos[2] < other[2]

\* The sequences without repetition of at most n elements of a set.
DistinctSeqs(set, n) ==
    {seq \in UNION {[1..k -> set] : k \in 0..n} :
        \A i, j \in DOMAIN seq : i # j => seq[i] # seq[j]}

\* operationId is unique among the operations of a spec.
FreshOperationId(operation, ops) ==
    \/ operation.operationId = <<>>
    \/ \A i \in DOMAIN ops : ops[i].operation.operationId # operation.operationId

\* extractEndpoints(spec, options) is called.
EpInit ==
    /\ EpOthersIdle
    /\ epVariant \in {"core", "playwright"}
    /\ epPaths \in DistinctSeqs(SpecPaths, MaxSpecPaths)
    /\ epOptions \in [useOperationId : BOOLEAN,
                      stripPathPrefix : PathPrefixes,
                      operationFilters : OperationFilters,
                      preferredContentTypes : {DefaultPreferredContentTypes},
                      trackStatusCode : {FALSE}]
    /\ epPos = <<0, 0>>
    /\ epOps = <<>>
    /\ epEndpoints = <<>>
    /\ epWarnings = <<>>
    /\ epPc = "loop"

\* The loops reach the next operation of the spec, at a position after the
\* last one; the operation filters exclude it (continue).
OperationFiltered ==
    /\ epPc = "loop"
    /\ Len(epOps) < MaxOperations
    /\ \E pos \in (DOMAIN epPaths) \X (DOMAIN HTTP_METHODS), operation \in Operations :
          LET method == HTTP_METHODS[pos[2]]
              path == stripPathPrefix(epPaths[pos[1]], epOptions.stripPathPrefix)
          IN  /\ Before(epPos, pos)
              /\ method \in OperationMethods
              /\ FreshOperationId(operation, epOps)
              /\ ~shouldIncludeOperation(operation, path, method, epOptions.operationFilters)
              /\ epPos' = pos
              /\ epOps' = Append(epOps, [pos |-> pos, operation |-> operation])
    /\ UNCHANGED <<epVariant, epPaths, epOptions, epEndpoints, epWarnings, epPc, epOthers>>

\* The loops reach the next operation of the spec; it passes the filters and
\* its descriptor is pushed.
OperationExtracted ==
    /\ epPc = "loop"
    /\ Len(epOps) < MaxOperations
    /\ \E pos \in (DOMAIN epPaths) \X (DOMAIN HTTP_METHODS), operation \in Operations :
          LET method == HTTP_METHODS[pos[2]]
              path == stripPathPrefix(epPaths[pos[1]], epOptions.stripPathPrefix)
          IN  /\ Before(epPos, pos)
              /\ method \in OperationMethods
              /\ FreshOperationId(operation, epOps)
              /\ shouldIncludeOperation(operation, path, method, epOptions.operationFilters)
              /\ epPos' = pos
              /\ epOps' = Append(epOps, [pos |-> pos, operation |-> operation])
              /\ epEndpoints' = Append(epEndpoints,
                                       Endpoint(epVariant, operation, method, path, epOptions))
    /\ UNCHANGED <<epVariant, epPaths, epOptions, epWarnings, epPc, epOthers>>

\* No operation is left: return endpoints.
ExtractDone ==
    /\ epPc = "loop"
    /\ epPc' = "done"
    /\ UNCHANGED <<epVariant, epPaths, epOptions, epPos, epOps, epEndpoints, epWarnings, epOthers>>

EpNext == OperationFiltered \/ OperationExtracted \/ ExtractDone

SpecEndpoints == EpInit /\ [][EpNext]_vars

\* C12: no two descriptors of the returned sequence have the same
\* (path, method).
C12_OnePerPathAndMethod ==
    epPc = "done" =>
        \A i, j \in DOMAIN epEndpoints :
            i # j => <<epEndpoints[i].path, epEndpoints[i].method>>
                        # <<epEndpoints[j].path, epEndpoints[j].method>>

\* C13: no two descriptors of the returned sequence have the same methodName.
C13_MethodNamesDistinct ==
    epPc = "done" =>
        \A i, j \in DOMAIN epEndpoints : i # j => epEndpoints[i].methodName # epEndpoints[j].methodName

(***************************************************************************)
(* mergeParameters (openapi-core ref-resolver.ts).                         *)
(*                                                                         *)
(* A parameter list holds inline parameter objects and references.  An     *)
(* entry records the list it stands in (level), so that the entries of the *)
(* two lists stay apart when their contents are equal.  The lists are      *)
(* drawn without repeated entries and without repeated (name, in) keys, as *)
(* OpenAPI requires of a parameter list; a reference may dangle.           *)
(***************************************************************************)
MaxParams == 2

ParamNames == {"a", "b"}

ParamLocations == {"query", "header"}

\* spec.components.parameters: "P" is defined, "Q" is not.
ParameterComponents == [P |-> [name |-> "a", in |-> "query"]]

ParameterRefs == {"P", "Q"}

InlineParam(level, name, in) ==
    [kind |-> "param", level |-> level, name |-> name, in |-> in, ref |-> ""]

RefParam(level, ref) ==
    [kind |-> "ref", level |-> level, name |-> "", in |-> "", ref |-> ref]

RawParams(level) ==
    {InlineParam(level, n, l) : n \in ParamNames, l \in ParamLocations}
        \cup {RefParam(level, r) : r \in ParameterRefs}

\* resolveParameterRef: the component a reference names, or the entry itself
\* when it is no reference or the component does not exist.
resolveParameterRef(param) ==
    IF param.kind = "ref" /\ param.ref \in DOMAIN ParameterComponents
    THEN [kind |-> "param", level |-> param.level,
          name |-> ParameterComponents[param.ref].name,
          in |-> ParameterComponents[param.ref].in, ref |-> param.ref]
    ELSE param

isResolvedParameter(value) == value.kind = "param"

SameParameter(p, q) ==
    isResolvedParameter(p) /\ isResolvedParameter(q) /\ p.name = q.name /\ p.in = q.in

ResolvedParams(params) == [i \in DOMAIN params |-> resolveParameterRef(params[i])]

ParamLists(level) ==
    {s \in UNION {[1..n -> RawParams(level)] : n \in 0..MaxParams} :
        \A i, j \in DOMAIN s :
            i # j => /\ s[i] # s[j]
                     /\ ~SameParameter(resolveParameterRef(s[i]), resolveParameterRef(s[j]))}

\* merged.findIndex(...): the first index that holds a resolved parameter of
\* the same name and location, 0 for the -1 of the code.
FindIndexNone(merged, opParam) == 0

FindIndex(merged, opParam) ==
    IF \E i \in DOMAIN merged : SameParameter(merged[i], opParam)
    THEN CHOOSE i \in DOMAIN merged :
            /\ SameParameter(merged[i], opParam)
            /\ \A k \in 1..(i - 1) : ~SameParameter(merged[k], opParam)
    ELSE 0

OpParam == resolveParameterRef(mgOp[mgPos + 1])

MgInit ==
    /\ mgPath \in ParamLists("path")
    /\ mgOp \in ParamLists("operation")
    /\ mgMerged = <<>>
    /\ mgPos = 0
    /\ mgPc = "call"
    /\ MgOthersIdle

\* const merged = [...resolvedPathParams]
MergeStart ==
    /\ mgPc = "call"
    /\ mgMerged' = ResolvedParams(mgPath)
    /\ mgPc' = "loop"
    /\ UNCHANGED <<mgPath, mgOp, mgPos>>
    /\ UNCHANGED mgOthers

\* if (!isResolvedParameter(opParam)) continue
MergeSkip ==
    /\ mgPc = "loop"
    /\ mgPos < Len(mgOp)
    /\ ~isResolvedParameter(OpParam)
    /\ mgPos' = mgPos + 1
    /\ UNCHANGED <<mgPath, mgOp, mgMerged, mgPc>>
    /\ UNCHANGED mgOthers

\* merged[existingIndex] = opParam
MergeOverride ==
    /\ mgPc = "loop"
    /\ mgPos < Len(mgOp)
    /\ isResolvedParameter(OpParam)
    /\ FindIndex(mgMerged, OpParam) > 0
    /\ mgMerged' = [mgMerged EXCEPT ![FindIndex(mgMerged, OpParam)] = OpParam]
    /\ mgPos' = mgPos + 1
    /\ UNCHANGED <<mgPath, mgOp, mgPc>>
    /\ UNCHANGED mgOthers

\* merged.push(opParam)
MergeAppend ==
    /\ mgPc = "loop"
    /\ mgPos < Len(mgOp)
    /\ isResolvedParameter(OpParam)
    /\ FindIndex(mgMerged, OpParam) = 0
    /\ mgMerged' = Append(mgMerged, OpParam)
    /\ mgPos' = mgPos + 1
    /\ UNCHANGED <<mgPath, mgOp, mgPc>>
    /\ UNCHANGED mgOthers

\* return merged
MergeReturn ==
    /\ mgPc = "loop"
    /\ mgPos = Len(mgOp)
    /\ mgPc' = "done"
    /\ UNCHANGED <<mgPath, mgOp, mgMerged, mgPos>>
    /\ UNCHANGED mgOthers

MgNext == MergeStart \/ MergeSkip \/ MergeOverride \/ MergeAppend \/ MergeReturn

SpecMerge == MgInit /\ [][MgNext]_vars

\* The (path-level, operation-level) index pairs of one (name, location) key.
SharedKeys ==
    {pair \in (DOMAIN mgPath) \X (DOMAIN mgOp) :
        SameParameter(resolveParameterRef(mgPath[pair[1]]), resolveParameterRef(mgOp[pair[2]]))}

HasNoPathCounterpart(opParam) ==
    \A i \in DOMAIN mgPath : ~SameParameter(resolveParameterRef(mgPath[i]), opParam)

\* C15: the returned list holds the path-level parameters first, each at its
\* original position (or the operation-level entry that overrides it), then
\* the operation-level parameters without path-level counterpart in their
\* declaration order, and every operation-level parameter appears in it.
C15_OrderAndCompleteness ==
    mgPc = "done" =>
        LET pathParams == ResolvedParams(mgPath)
            opParams == ResolvedParams(mgOp)
            n == Len(pathParams)
        IN  /\ Len(mgMerged) >= n
            /\ \A i \in 1..n :
                   \/ mgMerged[i] = pathParams[i]
                   \/ mgMerged[i].level = "operation" /\ SameParameter(mgMerged[i], pathParams[i])
            /\ SubSeq(mgMerged, n + 1, Len(mgMerged)) = SelectSeq(opParams, HasNoPathCounterpart)
            /\ \A j \in DOMAIN opParams : \E k \in DOMAIN mgMerged : mgMerged[k] = opParams[j]

(***************************************************************************)
(* selectContentType (content-type-utils.ts; the playwright package's      *)
(* config-loader.ts holds the same function).                              *)
(***************************************************************************)
MaxAvailable == 2

MaxPreferred == 2

\* The preferred types a configuration names: any casing, no parameters.
PreferredTypes == {ContentType(m, w) : m \in MediaTypes, w \in {"plain", "upper"}}

SeqsUpTo(S, n) == UNION {[1..k -> S] : k \in 0..n}

CtInit ==
    /\ ctAvailable \in SeqsUpTo(ContentTypes, MaxAvailable)
    /\ ctPreferred \in SeqsUpTo(PreferredTypes, MaxPreferred)
    /\ ctResult = NoContentType
    /\ ctPc = "call"
    /\ CtOthersIdle

SelectContentTypeCall ==
    /\ ctPc = "call"
    /\ ctResult' = selectContentType(ctAvailable, ctPreferred)
    /\ ctPc' = "done"
    /\ UNCHANGED <<ctAvailable, ctPreferred>>
    /\ UNCHANGED ctOthers

CtNext == SelectContentTypeCall

SpecContentType == CtInit /\ [][CtNext]_vars

\* The available types that are the given preferred type up to casing and
\* parameters.
MatchesOf(preferred) ==
    {i \in DOMAIN ctAvailable :
        normalizeContentType(ctAvailable[i]) = normalizeContentType(preferred)}

\* The entries of the preference list that have any match.
MatchedPreferences == {i \in DOMAIN ctPreferred : MatchesOf(ctPreferred[i]) # {}}

EarliestMatched == CHOOSE i \in MatchedPreferences : \A k \in MatchedPreferences : i <= k

\* C17: on a non-empty list of available content types selectContentType
\* returns an available type that matches the earliest entry of the
\* preference list that has a match, and the first available type when no
\* preferred type is available; it returns undefined only when no content
\* type is available.
C17_SelectContentType ==
    ctPc = "done" =>
        /\ (ctAvailable # <<>> /\ MatchedPreferences # {}) =>
               \E i \in MatchesOf(ctPreferred[EarliestMatched]) : ctResult = ctAvailable[i]
        /\ (ctAvailable # <<>> /\ MatchedPreferences = {}) => ctResult = ctAvailable[1]
        /\ ctResult = NoContentType => ctAvailable = <<>>

\* A later entry of the preference list decides, and it picks an available
\* type that is not the first one.
C17_Witness ==
    /\ ctPc = "done"
    /\ MatchedPreferences # {}
    /\ EarliestMatched > 1
    /\ ctResult # ctAvailable[1]

(***************************************************************************)
(* The success response of one operation: the "Extract success response    *)
(* type" loop of extractEndpoints.                                         *)
(***************************************************************************)
MaxResponses == 2

\* What a response of an operation resolves to: an object without content,
\* one with an empty content map, and content maps whose media types have a
\* schema or none.
ResponseShapes ==
    { WithoutContent,
      WithContent(<<>>, FALSE),
      WithContent(<<JsonUser>>, FALSE),
      WithContent(<<XmlPet>>, FALSE),
      WithContent(<<MediaEntry(ContentType("application/xml", "plain"), NoSchema),
                    MediaEntry(ContentType("text/plain", "plain"), TypeSchema("string"))>>, FALSE) }

\* Object.entries(operation.responses) of the operations
ResponseLists ==
    {entries \in SeqsUpTo({ResponseEntry(status, shape) : status \in StatusCodes,
                                                           shape \in ResponseShapes},
                          MaxResponses) :
        EntriesOrdered(entries)}

\* options.preferredContentTypes and whether the caller tracks status codes
SuccessOptions ==
    {[preferred |-> p, trackStatusCode |-> t] :
        p \in {DefaultPreferredContentTypes, <<ContentType("application/xml", "plain")>>},
        t \in BOOLEAN}

SrInit ==
    /\ srResponses \in ResponseLists
    /\ srOptions \in SuccessOptions
    /\ srResult = NoSuccess
    /\ srPc = "call"
    /\ SrOthersIdle

ExtractSuccessResponse ==
    /\ srPc = "call"
    /\ srResult' = SuccessResponse(srResponses, srOptions.preferred, srOptions.trackStatusCode)
    /\ srPc' = "done"
    /\ UNCHANGED <<srResponses, srOptions>>
    /\ UNCHANGED srOthers

SrNext == ExtractSuccessResponse

SpecSuccess == SrInit /\ [][SrNext]_vars

\* A 2xx status code, read off the key itself.
Is2xx(status) == Len(status) > 0 /\ status[1] = "2"

\* A response has inspectable content: it has a content map, a content type
\* is selected from it and the media type under it has a schema.
Inspectable(response) ==
    /\ response.hasContent
    /\ response.content # <<>>
    /\ SchemaAt(response.content,
                selectContentType(Keys2(response.content), srOptions.preferred)) # NoSchema

InspectedType(response) ==
    schemaToTypeString(SchemaAt(response.content,
                                selectContentType(Keys2(response.content), srOptions.preferred)))

\* The entries with 2xx status and inspectable content.
InspectableEntries ==
    {i \in DOMAIN srResponses :
        Is2xx(srResponses[i].status) /\ Inspectable(srResponses[i].response)}

\* The 2xx entries without content, which end the loop with "void" for a
\* caller that tracks status codes.
VoidEntries ==
    {i \in DOMAIN srResponses :
        /\ srOptions.trackStatusCode
        /\ Is2xx(srResponses[i].status)
        /\ ~srResponses[i].response.hasContent}

First(indices) == CHOOSE i \in indices : \A k \in indices : i <= k

\* The result does not depend on the entries whose status is not 2xx.
NonSuccessIgnored ==
    srResult.type =
        SuccessResponse(SelectSeq(srResponses, LAMBDA entry : Is2xx(entry.status)),
                        srOptions.preferred, srOptions.trackStatusCode).type

\* C16 as stated: the success response type is that of the first entry, in
\* iteration order, with 2xx status and inspectable content, and entries
\* with another status never contribute.
C16_FirstInspectableWins ==
    srPc = "done" =>
        /\ InspectableEntries # {} =>
               srResult.type = InspectedType(srResponses[First(InspectableEntries)].response)
        /\ NonSuccessIgnored

\* C16 (amended): the success response type is decided by the first entry, in
\* iteration order, with 2xx status that either has inspectable content or,
\* for a caller that tracks status codes, has no content; it is the type of
\* that content or "void"; without such an entry it is undefined, and entries
\* with another status never contribute.
C16_FirstDecidingEntryWins ==
    srPc = "done" =>
        LET deciding == InspectableEntries \cup VoidEntries
        IN  /\ deciding # {} /\ First(deciding) \in InspectableEntries =>
                   srResult.type = InspectedType(srResponses[First(deciding)].response)
            /\ deciding # {} /\ First(deciding) \in VoidEntries => srResult.type = "void"
            /\ deciding = {} => srResult.type = "undefined"
            /\ NonSuccessIgnored

\* A 2xx entry without content comes before one with inspectable content and
\* the caller tracks status codes.
C16_Witness ==
    /\ srPc = "done"
    /\ InspectableEntries # {}
    /\ VoidEntries # {}
    /\ First(VoidEntries) < First(InspectableEntries)
    /\ srResult.type = "void"

(***************************************************************************)
(* Content-type fallback in extractEndpoints.                              *)
(***************************************************************************)

\* The request body of a descriptor was typed by a content type that is none
\* of the preferred ones: selectContentType fell back to the first available.
FellBack(endpoint) ==
    /\ endpoint.requestBody # NoRequestBody
    /\ \A k \in DOMAIN epOptions.preferredContentTypes :
           normalizeContentType(epOptions.preferredContentTypes[k])
               # normalizeContentType(endpoint.requestBody.contentType)

\* C18: when a request body offers none of the preferred content types,
\* endpoint extraction falls back to the first available entry and reports
\* the missing preferred match as a warning.
C18_FallbackWarned ==
    \A i \in DOMAIN epEndpoints : FellBack(epEndpoints[i]) => epWarnings # <<>>

(***************************************************************************)
(* stripPrefix with one pattern (enum-utils.ts).                           *)
(***************************************************************************)
MaxInputLen == 3

InputChars == {"a", "b", "/"}

StripInputs == SeqsUpTo(InputChars, MaxInputLen)

\* The patterns of the calls: none, literal ones and glob patterns.
StripPatterns ==
    { <<>>, <<"a">>, <<"a", "b">>,
      <<"*">>, <<"a", "*">>, <<"a", "?">>, <<"*", "b">>, <<"/", "*">>, <<"*", "/", "*">> }

SpInit ==
    /\ spInput \in StripInputs
    /\ spPattern \in StripPatterns
    /\ spLead \in { <<>>, <<"/">> }
    /\ spResult = <<>>
    /\ spPc = "call"
    /\ SpOthersIdle

StripPrefixCall ==
    /\ spPc = "call"
    /\ spResult' = stripPrefix(spInput, spPattern, spLead)
    /\ spPc' = "done"
    /\ UNCHANGED <<spInput, spPattern, spLead>>
    /\ UNCHANGED spOthers

SpNext == StripPrefixCall

SpecStrip == SpInit /\ [][SpNext]_vars

\* The lengths of the candidate prefixes of the input that match the pattern.
MatchingPrefixes == {i \in 1..Len(spInput) : minimatch(SubSeq(spInput, 1, i), spPattern)}

LongestPrefix == CHOOSE i \in MatchingPrefixes : \A k \in MatchingPrefixes : k <= i

\* What is left of the input after its longest matching prefix.
Remainder == SubSeq(spInput, LongestPrefix + 1, Len(spInput))

MaxTypes == 2

\* schema.nullable: the booleans, absent, or a value that is no boolean.
NullableValues == {"true", "false", "absent", "string"}

TypeNames == {"string", "integer", "null"}

\* schema.type: absent, one type name, or an array of type names.
SchemaTypes ==
    {[kind |-> "absent", names |-> <<>>]}
        \cup {[kind |-> "single", names |-> <<t>>] : t \in TypeNames \ {"null"}}
        \cup {[kind |-> "array", names |-> names] : names \in SeqsUpTo(TypeNames, MaxTypes)}

NullableSchemas == [nullable : NullableValues, type : SchemaTypes]

\* The defaultNullable argument; "undefined" takes the default value false.
DefaultNullableArgs == {"true", "false", "undefined"}

\* Mutant of ExplicitNullable: the explicit annotation is not looked at.
ExplicitNullableIgnored(schema) == FALSE

\* schema.nullable === true or schema.nullable === false
ExplicitNullable(schema) == schema.nullable \in {"true", "false"}

\* Mutant of TypeIncludesNull: "null" is never found in the type array.
TypeIncludesNullNever(schema) == FALSE

\* schema.type.includes("null")
TypeIncludesNull(schema) ==
    \E i \in DOMAIN schema.type.names : schema.type.names[i] = "null"

\* Mutant of DefaultNullable: the default is always false.
DefaultNullableOff(defaultNullable) == FALSE

\* return defaultNullable, with false for an omitted argument
DefaultNullable(defaultNullable) == defaultNullable = "true"

\* isNullable(schema, defaultNullable)
isNullable(schema, defaultNullable) ==
    IF ExplicitNullable(schema) THEN schema.nullable = "true"
    ELSE IF schema.type.kind = "array" THEN TypeIncludesNull(schema)
    ELSE DefaultNullable(defaultNullable)

NlInit ==
    /\ nlSchema \in NullableSchemas
    /\ nlDefault \in DefaultNullableArgs
    /\ nlResult = FALSE
    /\ nlPc = "call"
    /\ NlOthersIdle

IsNullableCall ==
    /\ nlPc = "call"
    /\ nlResult' = isNullable(nlSchema, nlDefault)
    /\ nlPc' = "done"
    /\ UNCHANGED <<nlSchema, nlDefault>>
    /\ UNCHANGED nlOthers

NlNext == IsNullableCall

SpecNullable == NlInit /\ [][NlNext]_vars

\* C20: isNullable returns false for every schema with nullable: false and
\* true for every schema with nullable: true, whatever defaultNullable is.
C20_ExplicitBeatsDefault ==
    nlPc = "done" =>
        /\ nlSchema.nullable = "false" => nlResult = FALSE
        /\ nlSchema.nullable = "true" => nlResult = TRUE

\* nullable: false under defaultNullable: true, on a schema whose type array
\* names "null".
C20_Witness ==
    /\ nlPc = "done"
    /\ nlSchema.nullable = "false"
    /\ nlDefault = "true"
    /\ nlSchema.type.kind = "array"
    /\ \E i \in DOMAIN nlSchema.type.names : nlSchema.type.names[i] = "null"
    /\ nlResult = FALSE

\* The schema's type is an array that names "null".
NullInTypeArray ==
    /\ nlSchema.type.kind = "array"
    /\ \E i \in DOMAIN nlSchema.type.names : nlSchema.type.names[i] = "null"

\* C21 as stated: for every schema whose type is an array containing "null",
\* isNullable returns true.
C21_NullTypeIsNullable ==
    (nlPc = "done" /\ NullInTypeArray) => nlResult = TRUE

\* C21 (amended): for every schema whose type is an array containing "null"
\* and which does not say nullable: false, isNullable returns true, and so it
\* does for every schema with nullable: true.
C21_NullTypeIsNullableUnlessFalse ==
    nlPc = "done" =>
        /\ (NullInTypeArray /\ nlSchema.nullable # "false") => nlResult = TRUE
        /\ nlSchema.nullable = "true" => nlResult = TRUE

\* A type array with "null" decides, against defaultNullable: false.
C21_Witness ==
    /\ nlPc = "done"
    /\ NullInTypeArray
    /\ nlSchema.nullable = "absent"
    /\ nlDefault = "false"
    /\ nlResult = TRUE

\* C22 as stated: under defaultNullable: true every schema without a nullable
\* field is nullable; under defaultNullable: false (or none) a schema without
\* explicit nullability is not.
C22_DefaultApplies ==
    nlPc = "done" =>
        /\ (nlDefault = "true" /\ nlSchema.nullable = "absent") => nlResult = TRUE
        /\ (nlDefault # "true" /\ nlSchema.nullable = "absent" /\ ~NullInTypeArray)
               => nlResult = FALSE

\* C22 (amended): under defaultNullable: true every schema without a nullable
\* field whose type is not an array is nullable; under defaultNullable:
\* false (or none) a schema without a nullable field and without "null" in a
\* type array is not.
C22_DefaultAppliesWithoutTypeArray ==
    nlPc = "done" =>
        /\ (nlDefault = "true" /\ nlSchema.nullable = "absent" /\ nlSchema.type.kind # "array")
               => nlResult = TRUE
        /\ (nlDefault # "true" /\ nlSchema.nullable = "absent" /\ ~NullInTypeArray)
               => nlResult = FALSE

\* The default makes a schema without annotation nullable.
C22_Witness ==
    /\ nlPc = "done"
    /\ nlDefault = "true"
    /\ nlSchema.nullable = "absent"
    /\ nlSchema.type.kind = "single"
    /\ nlResult = TRUE

(***************************************************************************)
(* Validation of loaded documents.                                         *)
(***************************************************************************)

\* The documents without `openapi` and without `swagger` field: an object
\* with neither, and the null an empty document parses to.
LacksVersionField(kind) == kind \in {"plain", "null"}

\* C23: with validation enabled, loading a document that has neither an
\* `openapi` nor a `swagger` field fails with a SpecValidationError and
\* returns no spec, whatever the parsed document is.
C23_MissingVersionIsValidationError ==
    [][(CachedLoadStep /\ ldLast'.validate /\ ~ldLast'.hit
                       /\ LacksVersionField(ldFiles[ldLast'.path]))
          => ldLast'.threw = "SpecValidationError"]_vars

(***************************************************************************)
(* normalizeBasePath (path-utils.ts).                                      *)
(***************************************************************************)
MaxBaseLen == 3

BasePathChars == {"a", "/", " "}

\* A base path: a string, or undefined.
BasePath(chars) == [defined |-> TRUE, chars |-> chars]

NoBasePath == [defined |-> FALSE, chars |-> <<>>]

BasePaths == {NoBasePath} \cup {BasePath(chars) : chars \in SeqsUpTo(BasePathChars, MaxBaseLen)}

\* if (!normalized.startsWith("/")) normalized = `/${normalized}`
WithLeadingSlash(chars) == IF StartsWith(chars, <<"/">>) THEN chars ELSE <<"/">> \o chars

\* if (normalized.endsWith("/")) normalized = normalized.slice(0, -1)
WithoutTrailingSlash(chars) ==
    IF chars # <<>> /\ chars[Len(chars)] = "/" THEN SubSeq(chars, 1, Len(chars) - 1) ELSE chars

\* normalizeBasePath(basePath)
normalizeBasePath(basePath) ==
    IF \/ ~basePath.defined
       \/ basePath.chars = <<>>
       \/ basePath.chars = <<"/">>
       \/ Trim(basePath.chars) = <<>>
    THEN NoBasePath
    ELSE BasePath(WithoutTrailingSlash(WithLeadingSlash(Trim(basePath.chars))))

NbInit ==
    /\ nbInput \in BasePaths
    /\ nbOnce = NoBasePath
    /\ nbTwice = NoBasePath
    /\ nbPc = "call"
    /\ NbOthersIdle

\* normalizeBasePath(basePath) is called.
NormalizeBasePath ==
    /\ nbPc = "call"
    /\ nbOnce' = normalizeBasePath(nbInput)
    /\ nbPc' = "once"
    /\ UNCHANGED <<nbInput, nbTwice>>
    /\ UNCHANGED nbOthers

\* normalizeBasePath is called with the result of the first call.
NormalizeBasePathAgain ==
    /\ nbPc = "once"
    /\ nbTwice' = normalizeBasePath(nbOnce)
    /\ nbPc' = "twice"
    /\ UNCHANGED <<nbInput, nbOnce>>
    /\ UNCHANGED nbOthers

NbNext == NormalizeBasePath \/ NormalizeBasePathAgain

SpecBasePath == NbInit /\ [][NbNext]_vars

\* C25: normalizeBasePath is idempotent: applied to its own result it yields
\* that same result, for every string and for undefined.
C25_Idempotent == nbPc = "twice" => nbTwice = nbOnce

(***************************************************************************)
(* The utilities that warn: stripPrefix (enum-utils.ts),                   *)
(* validateIgnorePatterns (header-filters.ts), generateClientClass         *)
(* (playwright client generator) and generateK6ClientCode (k6 client       *)
(* generator).  Two lists record where a warning went: what console.warn   *)
(* was given and what the injected warn callback was given.                *)
(***************************************************************************)
MaxWarnCalls == 2

MaxIgnorePatterns == 2

\* The header parameter names of a spec, as collectAllHeaderNames gives
\* them (lower case).
HeaderNames == { <<"a">>, <<"a", "b">> }

\* Entries of ignoreHeaders
IgnorePatterns == { <<"*">>, <<"a">>, <<"A">>, <<"b", "*">>, <<"a", "?">> }

Warning(by, kind, about) == [by |-> by, kind |-> kind, about |-> about]

\* pattern.toLowerCase()
LowerCase(chars) == [i \in DOMAIN chars |-> ToLowerCase(chars[i])]

\* The console.warn of stripPrefix: a glob pattern that new Minimatch
\* rejects (valid says whether it accepts the pattern).
StripPrefixWarnings(pattern, valid) ==
    IF pattern # <<>> /\ isGlobPattern(pattern) /\ ~valid
    THEN <<Warning("stripPrefix", "invalid-glob", pattern)>>
    ELSE <<>>

\* The patterns of the list that match none of the headers, in order.
RECURSIVE UnmatchedPatterns(_, _)
UnmatchedPatterns(patterns, headers) ==
    IF patterns = <<>> THEN <<>>
    ELSE (IF \E h \in headers : minimatch(h, LowerCase(Head(patterns)))
          THEN <<>>
          ELSE <<Warning("validateIgnorePatterns", "unmatched", Head(patterns))>>)
         \o UnmatchedPatterns(Tail(patterns), headers)

\* The console.warn calls of validateIgnorePatterns(ignorePatterns, spec);
\* <<>> stands for an undefined or empty list.
ValidateIgnoreWarnings(patterns, headers) ==
    IF patterns = <<>> THEN <<>>
    ELSE IF \E i \in DOMAIN patterns : patterns[i] = <<"*">> THEN <<>>
    ELSE IF headers = {}
    THEN <<Warning("validateIgnorePatterns", "no-headers", <<>>)>>
    ELSE UnmatchedPatterns(patterns, headers)

\* The warning about all operations being filtered out: the spec has
\* total operations and kept of them pass the filters.
AllFilteredWarnings(by, total, kept) ==
    IF kept = 0 /\ total > 0 THEN <<Warning(by, "all-filtered", <<>>)>> ELSE <<>>

WnInit ==
    /\ wnCalls = 0
    /\ wnConsole = <<>>
    /\ wnCallback = <<>>
    /\ wnLast = "none"
    /\ WnOthersIdle

\* stripPrefix(input, pattern) is called.
CallStripPrefix ==
    /\ wnCalls < MaxWarnCalls
    /\ \E pattern \in StripPatterns, valid \in BOOLEAN :
          wnConsole' = wnConsole \o StripPrefixWarnings(pattern, valid)
    /\ wnCalls' = wnCalls + 1
    /\ wnLast' = "stripPrefix"
    /\ UNCHANGED wnCallback
    /\ UNCHANGED wnOthers

\* validateIgnorePatterns(ignorePatterns, spec) is called.
CallValidateIgnorePatterns ==
    /\ wnCalls < MaxWarnCalls
    /\ \E patterns \in SeqsUpTo(IgnorePatterns, MaxIgnorePatterns), headers \in SUBSET HeaderNames :
          wnConsole' = wnConsole \o ValidateIgnoreWarnings(patterns, headers)
    /\ wnCalls' = wnCalls + 1
    /\ wnLast' = "validateIgnorePatterns"
    /\ UNCHANGED wnCallback
    /\ UNCHANGED wnOthers

\* generateClientClass(spec, ..., operationFilters, ..., warn) is called;
\* without filters every operation is kept, without warn nothing is reported.
CallGenerateClientClass ==
    /\ wnCalls < MaxWarnCalls
    /\ \E filters \in BOOLEAN, warn \in BOOLEAN, total \in 0..MaxOperations, kept \in 0..MaxOperations :
          /\ kept <= total
          /\ ~filters => kept = total
          /\ wnCallback' = IF filters /\ warn
                           THEN wnCallback \o AllFilteredWarnings("generateClientClass", total, kept)
                           ELSE wnCallback
    /\ wnCalls' = wnCalls + 1
    /\ wnLast' = "generateClientClass"
    /\ UNCHANGED wnConsole
    /\ UNCHANGED wnOthers

\* generateK6ClientCode(spec, options) is called.
CallGenerateK6ClientCode ==
    /\ wnCalls < MaxWarnCalls
    /\ \E total \in 0..MaxOperations, kept \in 0..MaxOperations :
          /\ kept <= total
          /\ wnConsole' = wnConsole \o AllFilteredWarnings("generateK6ClientCode", total, kept)
    /\ wnCalls' = wnCalls + 1
    /\ wnLast' = "generateK6ClientCode"
    /\ UNCHANGED wnCallback
    /\ UNCHANGED wnOthers

WnNext ==
    \/ CallStripPrefix \/ CallValidateIgnorePatterns
    \/ CallGenerateClientClass \/ CallGenerateK6ClientCode

SpecWarnings == WnInit /\ [][WnNext]_vars

\* C24: no warning is printed directly: nothing is written to the console,
\* warnings reach the caller only through the injected callback.
C24_NothingPrinted == wnConsole = <<>>

(***************************************************************************)
(* The cycles validateDependencyGraph reports.                             *)
(***************************************************************************)

\* C26: every cycle path validateDependencyGraph reports is a cycle of the
\* declared dependency graph: it starts and ends at the same property and
\* every consecutive pair in it is a declared dependency edge.
C26_ReportedCyclesGenuine ==
    \A i \in DOMAIN depErrors : IsDeclaredCycle(depErrors[i])

(***************************************************************************)
(* What executeBatch returns, and whether it returns.                      *)
(***************************************************************************)

\* C27: after executeBatch returns, every entry of summary.results carries
\* the spec it was produced from: results[k].spec is specs[k].
C27_ResultsKeepSpec ==
    batPc = "returned" =>
        /\ Len(batResults) = Len(batSpecs)
        /\ \A k \in 1..Len(batSpecs) : batResults[k].spec = batSpecs[k]

\* The event loop runs a pending executeBatch call on: every step that can
\* be taken is taken.
SpecBatchFair == SpecBatch /\ WF_vars(BatNext)

C29_ValidatedLoadReturnsValid ==
    (ldLast.call = "loadOpenAPISpecCached" /\ ldLast.validate /\ ldLast.threw = "none")
        => ~LacksVersionField(ldLast.value.kind)

(***************************************************************************)
(* successStatusCode of a descriptor.                                      *)
(***************************************************************************)

\* The entry successResponseType was taken from.
DecidingEntry == First(InspectableEntries \cup VoidEntries)

\* C30: with trackStatusCode, successStatusCode is defined exactly when
\* successResponseType is, and it is the status code of the response the
\* type was taken from; without trackStatusCode it is always undefined.
C30_StatusCodeOfSuccessResponse ==
    srPc = "done" =>
        IF srOptions.trackStatusCode
        THEN /\ srResult.tracked <=> srResult.type # "undefined"
             /\ srResult.type # "undefined" =>
                    DecimalString(srResult.statusCode) = srResponses[DecidingEntry].status
        ELSE ~srResult.tracked

====
